---- MODULE Spec2Model ----
(***************************************************************************)
(* Model of the supergraph query pipeline: validator, IAM guard pass,      *)
(* planner, executor and assembler (src/src/supergraph).                   *)
(*                                                                         *)
(* Encoding conventions                                                    *)
(*  - A Python string that the code takes apart is a sequence of tokens:   *)
(*    a filter key "id__eq" is <<"id", "eq">> (tokens joined by "__"), an  *)
(*    order item "-id" is <<"-", "id">>.                                   *)
(*  - A Python dict is a sequence of [name, ...] entries in insertion      *)
(*    order with pairwise distinct names.                                  *)
(*  - Optional strings use the string None; optional integers and optional *)
(*    records are sequences of length at most one.                         *)
(*  - A JSON value is a record [t, v]: t is its type, v its printed form   *)
(*    (a sequence of values for a list).                                   *)
(***************************************************************************)
EXTENDS Integers, Sequences, FiniteSets, TLC

VARIABLES
    query,        \* the JSONQuery handed to the pipeline
    pc,           \* position of the request in _execute_single_query
    errors,       \* validator: accumulated error strings
    normalized,   \* validator: <<>> (None) or <<NormalizedQuery>>
    http_status,  \* status the boundary answers with (0 while running)
    iam,          \* <<>> or <<IAMResponse>> of check_access
    plan_steps,   \* the list plan() returned
    final_steps,  \* the list handed to the executor and the assembler
    sorted_steps, \* execute: the topologically sorted list
    idx,          \* execute: position of the loop in sorted_steps
    results,      \* execute: the results map, in insertion order
    inflight,     \* requests sent to a service and not yet answered
    fetches,      \* every request sent so far, in order
    exec_error,   \* <<>> or <<the exception execute raised>>
    response,     \* <<>> or <<the assembled response>>
    step_counter, \* QueryPlanner._step_counter of a planner object that is kept
    previous_plan, \* <<>> or <<the list the call of plan() before the last returned>>
    mutation,     \* <<>> or <<the mutation request and the path it came in on>>
    posts,        \* every InternalMutationRequest posted to a service, in order
    mutation_results, \* the MutationResult list of the request
    tx_result,    \* <<>> or <<the TransactionResult>>
    transaction,  \* <<>> or <<the Transaction handed to TransactionExecutor.execute>>
    tx_step,      \* execute: position of the loop in transaction.steps
    variables,    \* execute: the alias bindings, an ordered dict
    completed_creates, \* execute: (entity, id) of the tracked creates, in order
    compensations \* every execute_compensation call made, in order

vars == <<query, pc, errors, normalized, http_status, iam, plan_steps, final_steps,
          sorted_steps, idx, results, inflight, fetches, exec_error, response,
          step_counter, previous_plan, mutation, posts, mutation_results, tx_result,
          transaction, tx_step, variables, completed_creates, compensations>>

\* locals of TransactionExecutor.execute (runtime/transaction_executor.py:76-78)
transaction_vars == <<transaction, tx_step, variables, completed_creates, compensations>>

\* state of the mutation paths (api/router.py:484-512, 557-690)
mutation_vars == <<mutation, posts, mutation_results, tx_result>>

\* state of a QueryPlanner that outlives one call of plan(); the query pipeline
\* builds a fresh planner per request (api/router.py:447) and leaves it alone
planner_vars == <<step_counter, previous_plan>>

pipeline_vars == <<iam, plan_steps, final_steps, sorted_steps, idx, results, inflight,
                   fetches, exec_error, response>>

None == "None"

\* ------------------------------------------------------------------ values
IntV(n) == [t |-> "int", v |-> ToString(n)]
StrV(s) == [t |-> "str", v |-> s]
ListV(seq) == [t |-> "list", v |-> seq]
NullV == [t |-> "null", v |-> ""]

\* Python truthiness of a JSON value (used by `not match_filter.value`).
Truthy(val) ==
    CASE val.t = "null" -> FALSE
      [] val.t = "list" -> Len(val.v) > 0
      [] val.t = "int" -> val.v # "0"
      [] OTHER -> val.v # ""

\* ------------------------------------------------------------------ helpers
Range(seq) == {seq[i] : i \in 1..Len(seq)}

Contains(seq, x) == \E i \in 1..Len(seq) : seq[i] = x

\* dict.get(key, default) on a record
Get(rec, key, default) == IF key \in DOMAIN rec THEN rec[key] ELSE default

\* lookup in an ordered dict (sequence of [name, ...] entries); <<>> if absent
Lookup(dict, name) ==
    IF \E i \in 1..Len(dict) : dict[i].name = name
    THEN <<dict[CHOOSE i \in 1..Len(dict) : dict[i].name = name]>>
    ELSE <<>>

RECURSIVE JoinTokens(_)
\* "__".join(tokens)
JoinTokens(tokens) ==
    IF Len(tokens) = 0 THEN ""
    ELSE IF Len(tokens) = 1 THEN tokens[1]
    ELSE tokens[1] \o "__" \o JoinTokens(Tail(tokens))

\* ------------------------------------------------------------------ schema
\* The compiled graph the gateway serves: four entities over four services,
\* one relation provider.  Company is keyed by "code", not "id".
FieldSpec(ops, sortable) == [filters |-> ops, sortable |-> sortable]

GraphServices ==
    [person |-> [url |-> "http://person"],
     company |-> [url |-> "http://company"],
     property |-> [url |-> "http://property"],
     relations |-> [url |-> "http://relations"]]

GraphProviders ==
    [relations_db |->
        [service |-> "relations", entity |-> "Relationship",
         subject_field |-> "subject_id", object_field |-> "object_id",
         type_field |-> "relationship_type", status_field |-> "status"]]

GraphEntities ==
    [Person |->
        [service |-> "person",
         keys |-> <<"id">>,
         fields |->
            [id |-> FieldSpec({"eq", "in"}, TRUE),
             name |-> FieldSpec({"eq", "icontains"}, TRUE),
             company_code |-> FieldSpec({"eq", "in"}, FALSE),
             rc_id |-> FieldSpec({"eq", "in"}, FALSE)],
         relations |->
            <<[name |-> "employer", target |-> "Company", cardinality |-> "one",
               kind |-> "ref",
               ref |-> [from_field |-> "company_code", to_field |-> "code"]],
              [name |-> "owned", target |-> "Property", cardinality |-> "many",
               kind |-> "provider", provider |-> "relations_db",
               type |-> "owner", status |-> "active", direction |-> "out"]>>,
         access |-> [tenant_strategy |-> "direct", tenant_field |-> "rc_id"]],
     Company |->
        [service |-> "company",
         keys |-> <<"code">>,
         fields |->
            [code |-> FieldSpec({"eq", "in"}, TRUE),
             name |-> FieldSpec({"icontains"}, TRUE)],
         relations |->
            <<[name |-> "staff", target |-> "Person", cardinality |-> "many",
               kind |-> "ref",
               ref |-> [from_field |-> "code", to_field |-> "company_code"]]>>,
         access |-> [tenant_strategy |-> "none", tenant_field |-> None]],
     Property |->
        [service |-> "property",
         keys |-> <<"id">>,
         fields |->
            [id |-> FieldSpec({"eq", "in"}, TRUE),
             name |-> FieldSpec({"icontains"}, TRUE),
             rc_id |-> FieldSpec({"eq", "in"}, FALSE)],
         relations |->
            <<[name |-> "owners", target |-> "Person", cardinality |-> "many",
               kind |-> "provider", provider |-> "relations_db",
               type |-> "owner", status |-> "", direction |-> "in"]>>,
         access |-> [tenant_strategy |-> "direct", tenant_field |-> "rc_id"]],
     Relationship |->
        [service |-> "relations",
         keys |-> <<"id">>,
         fields |->
            [id |-> FieldSpec({"eq", "in"}, TRUE),
             subject_id |-> FieldSpec({"eq", "in"}, FALSE),
             object_id |-> FieldSpec({"eq", "in"}, FALSE),
             relationship_type |-> FieldSpec({"eq"}, FALSE),
             status |-> FieldSpec({"eq"}, FALSE)],
         relations |-> <<>>,
         access |-> [tenant_strategy |-> "none", tenant_field |-> None]]]

Graph ==
    [version |-> "1", services |-> GraphServices,
     relation_providers |-> GraphProviders, entities |-> GraphEntities]

EntityNames == DOMAIN GraphEntities

\* ------------------------------------------------------------------ validator
SUPPORTED_OPS == {"eq", "in", "icontains", "gte", "lte", "isnull"}

\* key.rsplit("__", 1): the last token is the operator, the joined rest the field;
\* a key without "__" is the field itself with the default operator eq.
ParseFilterKey(key) ==
    IF Len(key) > 1
    THEN [field_name |-> JoinTokens(SubSeq(key, 1, Len(key) - 1)), op |-> key[Len(key)]]
    ELSE [field_name |-> key[1], op |-> "eq"]

\* One iteration of the loop over raw_filters.items(): the filter, or the error.
ValidateFilter(entry, entity_def, path) ==
    LET p == ParseFilterKey(entry.name)
        fields_def == entity_def.fields
    IN  IF p.field_name \notin DOMAIN fields_def
        THEN [ok |-> FALSE, error |-> path \o ": field '" \o p.field_name \o "' not found"]
        ELSE IF p.op \notin SUPPORTED_OPS
        THEN [ok |-> FALSE, error |-> path \o ": operator '" \o p.op \o "' not supported"]
        ELSE IF p.op \notin fields_def[p.field_name].filters
        THEN [ok |-> FALSE,
              error |-> path \o ": operator '" \o p.op \o "' not allowed for field '"
                        \o p.field_name \o "'"]
        ELSE [ok |-> TRUE,
              filter |-> [field |-> p.field_name, op |-> p.op, value |-> entry.value]]

RECURSIVE normalize_and_validate_filters(_, _, _)
normalize_and_validate_filters(raw_filters, entity_def, path) ==
    IF Len(raw_filters) = 0 THEN [filters |-> <<>>, errors |-> <<>>]
    ELSE LET r == ValidateFilter(Head(raw_filters), entity_def, path)
             rest == normalize_and_validate_filters(Tail(raw_filters), entity_def, path)
         IN  IF r.ok
             THEN [filters |-> <<r.filter>> \o rest.filters, errors |-> rest.errors]
             ELSE [filters |-> rest.filters, errors |-> <<r.error>> \o rest.errors]

\* item.startswith("-"): descending, the field is the rest of the item.
ParseOrderItem(item) ==
    IF Head(item) = "-"
    THEN [field_name |-> JoinTokens(Tail(item)), dir |-> "desc"]
    ELSE [field_name |-> JoinTokens(item), dir |-> "asc"]

RECURSIVE normalize_and_validate_order(_, _, _)
normalize_and_validate_order(raw_order, entity_def, path) ==
    IF Len(raw_order) = 0 THEN [order |-> <<>>, errors |-> <<>>]
    ELSE LET p == ParseOrderItem(Head(raw_order))
             fields_def == entity_def.fields
             rest == normalize_and_validate_order(Tail(raw_order), entity_def, path)
         IN  IF p.field_name \notin DOMAIN fields_def
             THEN [order |-> rest.order,
                   errors |-> <<path \o ": order field '" \o p.field_name \o "' not found">>
                              \o rest.errors]
             ELSE IF ~fields_def[p.field_name].sortable
             THEN [order |-> rest.order,
                   errors |-> <<path \o ": field '" \o p.field_name \o "' is not sortable">>
                              \o rest.errors]
             ELSE [order |-> <<[field |-> p.field_name, dir |-> p.dir]>> \o rest.order,
                   errors |-> rest.errors]

RECURSIVE ValidateFields(_, _, _)
\* the loop over selection.fields
ValidateFields(fields, entity_def, path) ==
    IF Len(fields) = 0 THEN [fields |-> <<>>, errors |-> <<>>]
    ELSE LET rest == ValidateFields(Tail(fields), entity_def, path)
         IN  IF Head(fields) \notin DOMAIN entity_def.fields
             THEN [fields |-> rest.fields,
                   errors |-> <<path \o ": field '" \o Head(fields) \o "' not found">>
                              \o rest.errors]
             ELSE [fields |-> <<Head(fields)>> \o rest.fields, errors |-> rest.errors]

RECURSIVE normalize_selection(_, _, _, _)
RECURSIVE ValidateRelations(_, _, _)

\* the loop over selection.relations.items()
ValidateRelations(relations, entity_def, path) ==
    IF Len(relations) = 0 THEN [relations |-> <<>>, errors |-> <<>>]
    ELSE LET entry == Head(relations)
             rest == ValidateRelations(Tail(relations), entity_def, path)
             found == Lookup(entity_def.relations, entry.name)
         IN  IF found = <<>>
             THEN [relations |-> rest.relations,
                   errors |-> <<path \o ": relation '" \o entry.name \o "' not found">>
                              \o rest.errors]
             ELSE IF found[1].target \notin EntityNames
             THEN [relations |-> rest.relations,
                   errors |-> <<path \o "." \o entry.name \o ": target entity '"
                                \o found[1].target \o "' not found">> \o rest.errors]
             ELSE LET nested == normalize_selection(
                                    entry.sel, GraphEntities[found[1].target],
                                    path \o "." \o entry.name, found[1].target)
                  IN  [relations |-> <<[name |-> entry.name, sel |-> nested.node]>>
                                     \o rest.relations,
                       errors |-> nested.errors \o rest.errors]

normalize_selection(selection, entity_def, path, entity_name) ==
    LET f == ValidateFields(selection.fields, entity_def, path)
        nf == normalize_and_validate_filters(selection.filters, entity_def, path)
        no == normalize_and_validate_order(selection.order, entity_def, path)
        nr == ValidateRelations(selection.relations, entity_def, path)
    IN  [node |-> [fields |-> f.fields, filters |-> nf.filters, order |-> no.order,
                   limit |-> selection.limit, offset |-> selection.offset,
                   relations |-> nr.relations],
         errors |-> f.errors \o nf.errors \o no.errors \o nr.errors]

\* is_single = any(f.field == "id" and f.op == "eq" for f in root_filters)
IsSingle(root_filters) ==
    \E i \in 1..Len(root_filters) :
        root_filters[i].field = "id" /\ root_filters[i].op = "eq"

\* A validator that hands back what it normalized even when it found errors.
validate_and_normalize_partial(q) ==
    IF q.entity \notin EntityNames
    THEN [errors |-> <<"Entity '" \o q.entity \o "' not found">>, query |-> <<>>]
    ELSE LET entity_def == GraphEntities[q.entity]
             rf == normalize_and_validate_filters(q.filters, entity_def, q.entity)
             ns == normalize_selection(q.select, entity_def, q.entity, q.entity)
         IN  [errors |-> rf.errors \o ns.errors,
              query |-> <<[action |-> q.action, entity |-> q.entity,
                           filters |-> rf.filters, select |-> ns.node,
                           is_single |-> IsSingle(rf.filters)]>>]

validate_and_normalize(q) ==
    IF q.entity \notin EntityNames
    THEN [errors |-> <<"Entity '" \o q.entity \o "' not found">>, query |-> <<>>]
    ELSE LET entity_def == GraphEntities[q.entity]
             rf == normalize_and_validate_filters(q.filters, entity_def, q.entity)
             ns == normalize_selection(q.select, entity_def, q.entity, q.entity)
             errs == rf.errors \o ns.errors
         IN  IF Len(errs) > 0
             THEN [errors |-> errs, query |-> <<>>]
             ELSE [errors |-> errs,
                   query |-> <<[action |-> q.action, entity |-> q.entity,
                                filters |-> rf.filters, select |-> ns.node,
                                is_single |-> IsSingle(rf.filters)]>>]

\* ------------------------------------------------------------------ planner
NormalizedFilter(field, op, value) == [field |-> field, op |-> op, value |-> value]

\* str.lower() on the entity names that reach _next_step_id
Lower(name) ==
    CASE name = "Person" -> "person"
      [] name = "Company" -> "company"
      [] name = "Property" -> "property"
      [] name = "Relationship" -> "relationship"
      [] OTHER -> name

\* _next_step_id after the counter was incremented to `counter`
StepId(entity, counter) == "step_" \o Lower(entity) \o "_" \o ToString(counter)

\* A step record that attaches a two-hop target onto the step it depends on.
PlanStepAttachedToLink(id, entity, service, filters, select_fields, order, limit, offset, depends_on, parent_key_field, child_match_field, attach_as, cardinality, attach_to_step_id, link_through_step_id, link_field) ==
    [id |-> id, entity |-> entity, service |-> service, filters |-> filters,
     guard |-> <<>>, select_fields |-> select_fields, order |-> order,
     limit |-> limit, offset |-> offset, depends_on |-> depends_on,
     parent_key_field |-> parent_key_field, child_match_field |-> child_match_field,
     attach_as |-> attach_as, cardinality |-> cardinality,
     attach_to_step_id |-> IF attach_to_step_id # None THEN depends_on ELSE None,
     link_through_step_id |-> link_through_step_id, link_field |-> link_field]

PlanStep(id, entity, service, filters, select_fields, order, limit, offset, depends_on, parent_key_field, child_match_field, attach_as, cardinality, attach_to_step_id, link_through_step_id, link_field) ==
    [id |-> id, entity |-> entity, service |-> service, filters |-> filters,
     guard |-> <<>>, select_fields |-> select_fields, order |-> order,
     limit |-> limit, offset |-> offset, depends_on |-> depends_on,
     parent_key_field |-> parent_key_field, child_match_field |-> child_match_field,
     attach_as |-> attach_as, cardinality |-> cardinality,
     attach_to_step_id |-> attach_to_step_id,
     link_through_step_id |-> link_through_step_id, link_field |-> link_field]

\* `if x not in fields: fields.append(x)`
AppendIfMissing(fields, x) == IF Contains(fields, x) THEN fields ELSE Append(fields, x)

RECURSIVE AppendAllMissing(_, _)
AppendAllMissing(fields, more) ==
    IF Len(more) = 0 THEN fields
    ELSE AppendAllMissing(AppendIfMissing(fields, Head(more)), Tail(more))

\* The select_fields _create_step computes: requested fields, then the entity's
\* keys, then child_match_field, then the required fields, each once.
StepFields(entity_def, selection, child_match_field, required_fields) ==
    LET with_keys == AppendAllMissing(selection.fields, Get(entity_def, "keys", <<"id">>))
        with_match == IF child_match_field # None
                      THEN AppendIfMissing(with_keys, child_match_field)
                      ELSE with_keys
    IN  AppendAllMissing(with_match, required_fields)

create_step(counter, entity_name, entity_def, selection, filters, parent_step_id, attach_as, cardinality, parent_key_field, child_match_field, required_fields) ==
    PlanStep(StepId(entity_name, counter), entity_name, entity_def.service, filters,
             StepFields(entity_def, selection, child_match_field, required_fields),
             selection.order, selection.limit, selection.offset,
             parent_step_id, parent_key_field, child_match_field, attach_as,
             cardinality, None, None, None)

\* The optional type / status equality filters of a provider relation.
ProviderFilters(relation_def, type_field, status_field) ==
    LET rel_type == Get(relation_def, "type", "")
        status == Get(relation_def, "status", "")
    IN  (IF rel_type # "" THEN <<NormalizedFilter(type_field, "eq", StrV(rel_type))>>
         ELSE <<>>)
        \o
        (IF status # "" THEN <<NormalizedFilter(status_field, "eq", StrV(status))>>
         ELSE <<>>)

ProviderOf(relation_def) ==
    LET provider_name == Get(relation_def, "provider", "relations_db")
    IN  Get(Graph.relation_providers, provider_name, [none |-> TRUE])

\* (parent_key_field, child_match_field, extra_filters, child_required_fields)
resolve_relation_mapping(relation_def, parent_entity_def, target_entity_def) ==
    LET kind == Get(relation_def, "kind", "")
    IN  IF kind = "provider"
        THEN LET provider == ProviderOf(relation_def)
                 subject_field == Get(provider, "subject_field", "subject_id")
                 object_field == Get(provider, "object_field", "object_id")
                 type_field == Get(provider, "type_field", "relationship_type")
                 status_field == Get(provider, "status_field", "status")
                 direction == Get(relation_def, "direction", "out")
                 child_match_field == IF direction = "out" THEN object_field ELSE subject_field
                 target_key_field == IF direction = "out" THEN subject_field ELSE object_field
             IN  [parent_key_field |-> Get(parent_entity_def, "keys", <<"id">>)[1],
                  child_match_field |-> child_match_field,
                  extra_filters |-> ProviderFilters(relation_def, type_field, status_field),
                  child_required_fields |-> <<target_key_field, child_match_field>>]
        ELSE IF kind = "ref"
        THEN LET ref == Get(relation_def, "ref", [none |-> TRUE])
                 child_match_field == Get(ref, "to_field", "id")
             IN  [parent_key_field |-> Get(ref, "from_field", None),
                  child_match_field |-> child_match_field,
                  extra_filters |-> <<>>,
                  child_required_fields |-> <<child_match_field>>]
        ELSE [parent_key_field |-> Get(parent_entity_def, "keys", <<"id">>)[1],
              child_match_field |-> Get(target_entity_def, "keys", <<"id">>)[1],
              extra_filters |-> <<>>,
              child_required_fields |-> <<>>]

\* A planner that reads the direction the other way round.
link_fields_swapped(direction, subject_field, object_field) ==
    IF direction = "in"
    THEN [parent_match_field |-> object_field, target_id_field |-> subject_field]
    ELSE [parent_match_field |-> subject_field, target_id_field |-> object_field]

\* `if direction == "in": ... else: ...` of _plan_provider_relation: the link field
\* matched against the parent's key and the link field holding the target's id
link_fields(direction, subject_field, object_field) ==
    IF direction = "in"
    THEN [parent_match_field |-> subject_field, target_id_field |-> object_field]
    ELSE [parent_match_field |-> object_field, target_id_field |-> subject_field]

\* A planner that fetches a provider relation in one hop, without a link step.
plan_provider_relation_single_hop(counter, relation_name, relation_def, relation_selection, parent_entity_def, parent_step, target_entity_name, target_entity_def, cardinality) ==
    <<create_step(counter + 1, target_entity_name, target_entity_def,
                  relation_selection, relation_selection.filters, parent_step.id,
                  relation_name, cardinality,
                  Get(parent_entity_def, "keys", <<"id">>)[1],
                  Get(target_entity_def, "keys", <<"id">>)[1], <<>>)>>

\* The two steps of a provider relation: the link step, then the target step.
plan_provider_relation(counter, relation_name, relation_def, relation_selection, parent_entity_def, parent_step, target_entity_name, target_entity_def, cardinality) ==
    LET provider == ProviderOf(relation_def)
        subject_field == Get(provider, "subject_field", "subject_id")
        object_field == Get(provider, "object_field", "object_id")
        type_field == Get(provider, "type_field", "relationship_type")
        status_field == Get(provider, "status_field", "status")
        provider_entity_name == Get(provider, "entity", "Relationship")
        provider_service == Get(provider, "service", "relations")
        direction == Get(relation_def, "direction", "out")
        parent_match_field == link_fields(direction, subject_field, object_field).parent_match_field
        target_id_field == link_fields(direction, subject_field, object_field).target_id_field
        parent_key_field == Get(parent_entity_def, "keys", <<"id">>)[1]
        rel_step ==
            PlanStep(StepId("Relationship", counter + 1), provider_entity_name,
                     provider_service,
                     ProviderFilters(relation_def, type_field, status_field),
                     <<target_id_field, parent_match_field>>, <<>>, <<>>, 0,
                     parent_step.id, parent_key_field, parent_match_field, None,
                     "many", None, None, None)
        target_key == Get(target_entity_def, "keys", <<"id">>)[1]
        target_step ==
            PlanStep(StepId(target_entity_name, counter + 2), target_entity_name,
                     target_entity_def.service, relation_selection.filters,
                     AppendIfMissing(relation_selection.fields, target_key),
                     relation_selection.order, relation_selection.limit,
                     relation_selection.offset,
                     rel_step.id, target_id_field, target_key, relation_name,
                     cardinality, parent_step.id, rel_step.id, parent_match_field)
    IN  <<rel_step, target_step>>

RECURSIVE plan_relations(_, _, _, _)
\* The loop over selection.relations.items(); `relations` is what is left of it,
\* `steps` the list built so far (its length is the step counter).
plan_relations(relations, parent_entity_def, parent_step, steps) ==
    IF Len(relations) = 0 THEN steps
    ELSE LET entry == Head(relations)
             found == Lookup(Get(parent_entity_def, "relations", <<>>), entry.name)
         IN  IF found = <<>> \/ (found # <<>> /\ found[1].target \notin EntityNames)
             THEN plan_relations(Tail(relations), parent_entity_def, parent_step, steps)
             ELSE LET relation_def == found[1]
                      target_entity_name == relation_def.target
                      target_entity_def == GraphEntities[target_entity_name]
                      cardinality == Get(relation_def, "cardinality", "many")
                      kind == Get(relation_def, "kind", "")
                      new_steps ==
                          IF kind = "provider"
                          THEN plan_provider_relation(
                                   Len(steps), entry.name, relation_def, entry.sel,
                                   parent_entity_def, parent_step, target_entity_name,
                                   target_entity_def, cardinality)
                          ELSE LET m == resolve_relation_mapping(
                                            relation_def, parent_entity_def,
                                            target_entity_def)
                               IN  <<create_step(
                                       Len(steps) + 1, target_entity_name,
                                       target_entity_def, entry.sel,
                                       entry.sel.filters \o m.extra_filters,
                                       parent_step.id, entry.name, cardinality,
                                       m.parent_key_field, m.child_match_field,
                                       m.child_required_fields)>>
                      nested == plan_relations(
                                    entry.sel.relations, target_entity_def,
                                    new_steps[Len(new_steps)], steps \o new_steps)
                  IN  plan_relations(Tail(relations), parent_entity_def, parent_step,
                                     nested)

\* QueryPlanner.plan: the counter restarts, root step first.
plan(q) ==
    LET entity_def == GraphEntities[q.entity]
        root_step == create_step(1, q.entity, entity_def, q.select, q.filters, None,
                                 None, None, None, None, <<>>)
    IN  plan_relations(q.select.relations, entity_def, root_step, <<root_step>>)

\* ------------------------------------------------------------------ IAM guard pass
\* NormalizedFilter of one IAM scope
GuardFilter(scope) == NormalizedFilter(scope.field, scope.op, ListV(scope.values))

RECURSIVE ScopeFilters(_)
ScopeFilters(scopes) ==
    IF Len(scopes) = 0 THEN <<>>
    ELSE <<GuardFilter(Head(scopes))>> \o ScopeFilters(Tail(scopes))

TenantStrategy(entity) ==
    IF entity \in EntityNames
    THEN Get(Get(GraphEntities[entity], "access", [none |-> TRUE]), "tenant_strategy", "none")
    ELSE "none"

\* the guard list of one step after inject_guards
GuardedStep(step, iam_response) ==
    IF TenantStrategy(step.entity) = "direct"
    THEN [step EXCEPT !.guard = step.guard \o ScopeFilters(iam_response.scopes)]
    ELSE step

inject_guards(steps, iam_response) ==
    [i \in 1..Len(steps) |-> GuardedStep(steps[i], iam_response)]

RECURSIVE Without(_, _)
\* [f for f in fields if f not in masked]
Without(fields, masked) ==
    IF Len(fields) = 0 THEN <<>>
    ELSE (IF Contains(masked, Head(fields)) THEN <<>> ELSE <<Head(fields)>>)
         \o Without(Tail(fields), masked)

filter_masked_fields(steps, iam_response) ==
    [i \in 1..Len(steps) |->
        LET found == Lookup(iam_response.field_masks, steps[i].entity)
            masked == IF found = <<>> THEN <<>> ELSE found[1].fields
        IN  IF Len(masked) > 0
            THEN [steps[i] EXCEPT !.select_fields = Without(steps[i].select_fields, masked)]
            ELSE steps[i]]

\* step_map = {s.id: s for s in steps}; step_map.get(id)
StepById(steps, id) ==
    IF \E i \in 1..Len(steps) : steps[i].id = id
    THEN <<steps[CHOOSE i \in 1..Len(steps) :
                    /\ steps[i].id = id
                    /\ \A j \in (i + 1)..Len(steps) : steps[j].id # id]>>
    ELSE <<>>

MaskedRelations(iam_response) ==
    UNION {{<<iam_response.relation_masks[i].name, r>> :
               r \in Range(iam_response.relation_masks[i].relations)} :
           i \in 1..Len(iam_response.relation_masks)}

\* the test of the filtering loop: the step is attached to a step of a masked pair
IsMaskedStep(steps, step, masked_relations) ==
    /\ step.depends_on # None
    /\ step.attach_as # None
    /\ StepById(steps, step.depends_on) # <<>>
    /\ <<StepById(steps, step.depends_on)[1].entity, step.attach_as>> \in masked_relations

filter_masked_relations(steps, iam_response) ==
    LET masked_relations == MaskedRelations(iam_response)
        Keep(step) == ~IsMaskedStep(steps, step, masked_relations)
    IN  IF \A i \in 1..Len(steps) : steps[i].depends_on # None
        THEN steps
        ELSE SelectSeq(steps, Keep)

\* ------------------------------------------------------------------ executor
RECURSIVE visit(_, _, _)
\* the inner visit() of _topological_sort; st = [visited, result]
visit(steps, step_id, st) ==
    IF step_id \in st.visited THEN st
    ELSE LET found == StepById(steps, step_id)
         IN  IF found = <<>> THEN st
             ELSE LET step == found[1]
                      st1 == IF step.depends_on # None /\ step.depends_on \notin st.visited
                             THEN visit(steps, step.depends_on, st)
                             ELSE st
                  IN  [visited |-> st1.visited \cup {step_id},
                       result |-> Append(st1.result, step)]

RECURSIVE VisitAll(_, _, _)
VisitAll(steps, i, st) ==
    IF i > Len(steps) THEN st
    ELSE VisitAll(steps, i + 1, visit(steps, steps[i].id, st))

topological_sort(steps) == VisitAll(steps, 1, [visited |-> {}, result |-> <<>>]).result

\* item.get(field)
RowGet(row, field) == IF field \in DOMAIN row THEN row[field] ELSE NullV

RECURSIVE ExtractFrom(_, _, _)
ExtractFrom(items, field, values) ==
    IF Len(items) = 0 THEN values
    ELSE LET value == RowGet(Head(items), field)
         IN  ExtractFrom(Tail(items), field,
                         IF value # NullV /\ ~Contains(values, value)
                         THEN Append(values, value)
                         ELSE values)

\* distinct non-null values of `field`, in row order
extract_field_values(items, field) == ExtractFrom(items, field, <<>>)

resolve_filters(step, res) ==
    LET parent_result == IF step.depends_on # None THEN Lookup(res, step.depends_on)
                         ELSE <<>>
        linking ==
            IF /\ step.depends_on # None
               /\ step.parent_key_field # None
               /\ step.child_match_field # None
               /\ parent_result # <<>>
            THEN <<NormalizedFilter(
                      step.child_match_field, "in",
                      ListV(extract_field_values(parent_result[1].items,
                                                 step.parent_key_field)))>>
            ELSE <<>>
    IN  linking \o step.filters

\* An executor that puts the guard filters in front.
AllFiltersGuardFirst(step, res) == step.guard \o resolve_filters(step, res)

\* all_filters = resolved_filters + step.guard
AllFilters(step, res) == resolve_filters(step, res) \o step.guard

\* An executor without the empty-IN short-circuit.
ShortCircuitsNever(step, all_filters) == FALSE

\* `match_filter and not match_filter.value` for a dependent step
ShortCircuits(step, all_filters) ==
    /\ step.depends_on # None
    /\ step.child_match_field # None
    /\ \E i \in 1..Len(all_filters) :
          /\ all_filters[i].field = step.child_match_field
          /\ all_filters[i].op = "in"
          /\ \A j \in 1..(i - 1) :
                ~(all_filters[j].field = step.child_match_field /\ all_filters[j].op = "in")
          /\ ~Truthy(all_filters[i].value)

\* context.get_service_url
get_service_url(service_name) ==
    IF service_name \in DOMAIN Graph.services
    THEN Get(Graph.services[service_name], "url", None)
    ELSE None

QueryResponse(step_id, items, total, limit, offset) ==
    [name |-> step_id, items |-> items, total |-> total, limit |-> limit,
     offset |-> offset]

FetchRequest(step, service_url, all_filters) ==
    [step_id |-> step.id, service_url |-> service_url, entity |-> step.entity,
     filters |-> all_filters, fields |-> step.select_fields, order |-> step.order,
     limit |-> step.limit, offset |-> step.offset]

\* What execute raises when _execute_step raised `exc` for step `step_id`:
\* `except Exception as e: raise ExecutionError(str(e), step_id=step.id)`.
ExecuteRaises(exc, step_id) ==
    [type |-> "ExecutionError", step_id |-> step_id, service |-> None,
     status_code |-> <<>>, cause |-> exc.type]

\* What _execute_single_query answers when execute raised `err`.
BoundaryStatus(err) ==
    IF err.type = "ServiceError" THEN 502
    ELSE 500

\* ------------------------------------------------------------------ backend
\* Rows the backing services hold.
Tables ==
    [Person |->
        <<[id |-> IntV(1), name |-> StrV("Ann"), company_code |-> StrV("c1"),
           rc_id |-> IntV(1)],
          [id |-> IntV(2), name |-> StrV("Bob"), company_code |-> NullV,
           rc_id |-> IntV(2)]>>,
     Company |-> <<[code |-> StrV("c1"), name |-> StrV("Acme")]>>,
     Property |-> <<[id |-> IntV(10), name |-> StrV("X"), rc_id |-> IntV(1)]>>,
     Relationship |->
        <<[id |-> IntV(100), subject_id |-> IntV(10), object_id |-> IntV(1),
           relationship_type |-> StrV("owner"), status |-> StrV("active")]>>]

\* _model_to_dict: the requested fields the row has, every column if none is asked
ModelToDict(row, fields) ==
    IF Len(fields) > 0
    THEN [f \in Range(fields) \cap DOMAIN row |-> row[f]]
    ELSE row

RECURSIVE SubSeqs(_)
\* every subsequence of a table, in table order
SubSeqs(rows) ==
    IF Len(rows) = 0 THEN {<<>>}
    ELSE LET rest == SubSeqs(Tail(rows))
         IN  rest \cup {<<Head(rows)>> \o r : r \in rest}

\* The row lists a service can answer a request with: any selection of its rows
\* (whatever its filters let through), each cut down to the requested fields.
BackendItems(request) ==
    {[i \in 1..Len(rows) |-> ModelToDict(rows[i], request.fields)] :
        rows \in SubSeqs(Tables[request.entity])}

\* status codes of a failed call: 0 is a network error, the others non-200 answers
FailureStatuses == {0, 503}

\* ------------------------------------------------------------------ assembler
ObjV(row) == [t |-> "obj", v |-> row]

\* str(value) of a scalar
StrOf(val) == val.v

\* row[name] = value
RowSet(row, name, value) ==
    [f \in DOMAIN row \cup {name} |-> IF f = name THEN value ELSE row[f]]

\* mutable_results.get(step_id, [])
ItemsOf(mutable_results, step_id) ==
    IF step_id \in DOMAIN mutable_results THEN mutable_results[step_id] ELSE <<>>

RECURSIVE DepthFrom(_, _, _)
\* get_depth: hops along depends_on until the root or a step that is not in the map
DepthFrom(steps, current, depth) ==
    IF current.depends_on = None THEN depth
    ELSE LET next == StepById(steps, current.depends_on)
         IN  IF next = <<>> THEN depth + 1
             ELSE DepthFrom(steps, next[1], depth + 1)

get_depth(steps, step) == DepthFrom(steps, step, 0)

RECURSIVE ByDepthDown(_, _, _)
ByDepthDown(steps, child_steps, depth) ==
    LET AtDepth(step) == get_depth(steps, step) = depth
    IN  IF depth < 0 THEN <<>>
        ELSE SelectSeq(child_steps, AtDepth) \o ByDepthDown(steps, child_steps, depth - 1)

\* sorted(steps, key=get_depth, reverse=True): deepest first, ties in list order
sort_by_depth(child_steps, steps) == ByDepthDown(steps, child_steps, Len(steps))

\* children_by_key.get(parent_key, []) of the single-hop attach
ChildrenByKey(child_items, child_match_field, parent_key) ==
    LET Matches(child) ==
            /\ child_match_field # None
            /\ RowGet(child, child_match_field) # NullV
            /\ RowGet(child, child_match_field) = parent_key
    IN  SelectSeq(child_items, Matches)

\* A value under attach_as that takes the last child for cardinality one.
AttachedLast(children, cardinality) ==
    IF cardinality = "one"
    THEN (IF Len(children) > 0 THEN ObjV(children[Len(children)]) ELSE NullV)
    ELSE ListV([i \in 1..Len(children) |-> ObjV(children[i])])

\* the value stored under attach_as
Attached(children, cardinality) ==
    IF cardinality = "one"
    THEN (IF Len(children) > 0 THEN ObjV(children[1]) ELSE NullV)
    ELSE ListV([i \in 1..Len(children) |-> ObjV(children[i])])

\* A child_id -> parent_id map read the other way round: keyed by link_field.
ChildToParentInverted(link_items, step, key) ==
    LET Links(i) ==
            /\ RowGet(link_items[i], step.parent_key_field) # NullV
            /\ RowGet(link_items[i], step.link_field) # NullV
            /\ StrOf(RowGet(link_items[i], step.link_field)) = key
        hits == {i \in 1..Len(link_items) : Links(i)}
    IN  IF hits = {} THEN <<>>
        ELSE <<StrOf(RowGet(link_items[CHOOSE i \in hits : \A j \in hits : j <= i],
                            step.parent_key_field))>>

\* child_to_parent.get(key): the parent id of the last link row naming this child
ChildToParent(link_items, step, key) ==
    LET Links(i) ==
            /\ RowGet(link_items[i], step.parent_key_field) # NullV
            /\ RowGet(link_items[i], step.link_field) # NullV
            /\ StrOf(RowGet(link_items[i], step.parent_key_field)) = key
        hits == {i \in 1..Len(link_items) : Links(i)}
    IN  IF hits = {} THEN <<>>
        ELSE <<StrOf(RowGet(link_items[CHOOSE i \in hits : \A j \in hits : j <= i],
                            step.link_field))>>

attach_via_link(step, parent_step, parent_items, child_items, mutable_results) ==
    LET link_items == ItemsOf(mutable_results, step.link_through_step_id)
        ChildrenOf(parent_item) ==
            LET parent_key == RowGet(parent_item, "id")
                OfParent(child) ==
                    /\ parent_key # NullV
                    /\ RowGet(child, step.child_match_field) # NullV
                    /\ ChildToParent(link_items, step,
                                     StrOf(RowGet(child, step.child_match_field)))
                         = <<StrOf(parent_key)>>
            IN  SelectSeq(child_items, OfParent)
    IN  [i \in 1..Len(parent_items) |->
            RowSet(parent_items[i], step.attach_as,
                   Attached(ChildrenOf(parent_items[i]), step.cardinality))]

\* A parent choice that always follows depends_on.
parent_step_of_depends_on(step, steps) ==
    IF step.depends_on # None THEN StepById(steps, step.depends_on) ELSE <<>>

\* the actual parent step to attach to: <<>> or <<step>>
parent_step_of(step, steps) ==
    IF step.attach_to_step_id # None THEN StepById(steps, step.attach_to_step_id)
    ELSE IF step.depends_on # None THEN StepById(steps, step.depends_on)
    ELSE <<>>

\* _attach_children: the rows of the parent step after the attachment, stored
\* back into mutable_results
attach_children(step, steps, res, mutable_results) ==
    LET parent_found == parent_step_of(step, steps)
    IN  IF \/ step.attach_as = None
           \/ parent_found = <<>>
           \/ Lookup(res, step.id) = <<>>
           \/ (parent_found # <<>> /\ parent_found[1].id \notin DOMAIN mutable_results)
        THEN mutable_results
        ELSE LET parent_step == parent_found[1]
                 parent_items == ItemsOf(mutable_results, parent_step.id)
                 child_items == ItemsOf(mutable_results, step.id)
                 new_items ==
                     IF /\ step.attach_to_step_id # None
                        /\ step.link_through_step_id # None
                        /\ step.link_field # None
                     THEN attach_via_link(step, parent_step, parent_items, child_items,
                                          mutable_results)
                     ELSE [i \in 1..Len(parent_items) |->
                             RowSet(parent_items[i], step.attach_as,
                                    Attached(
                                        ChildrenByKey(
                                            child_items, step.child_match_field,
                                            IF step.parent_key_field = None THEN NullV
                                            ELSE RowGet(parent_items[i],
                                                        step.parent_key_field)),
                                        step.cardinality))]
             IN  [mutable_results EXCEPT ![parent_step.id] = new_items]

RECURSIVE AttachAll(_, _, _, _)
AttachAll(ordered, steps, res, mutable_results) ==
    IF Len(ordered) = 0 THEN mutable_results
    ELSE AttachAll(Tail(ordered), steps, res,
                   attach_children(Head(ordered), steps, res, mutable_results))

\* A page test that also reports a next page when the rows end exactly at total.
has_next_inclusive(result) ==
    IF result.limit = <<>> THEN FALSE
    ELSE result.total >= result.offset + Len(result.items)

has_next(result) ==
    IF result.limit = <<>> THEN FALSE
    ELSE result.total > result.offset + Len(result.items)

assemble(steps, res, is_single) ==
    LET roots == {i \in 1..Len(steps) : steps[i].depends_on = None}
    IN  IF roots = {} THEN [kind |-> "null"]
        ELSE LET root_step == steps[CHOOSE i \in roots : \A j \in roots : i <= j]
                 root_result == Lookup(res, root_step.id)
                 HasParent(step) == step.depends_on # None
                 child_steps == sort_by_depth(SelectSeq(steps, HasParent), steps)
                 initial == [id \in {res[i].name : i \in 1..Len(res)} |->
                                Lookup(res, id)[1].items]
                 root_items == AttachAll(child_steps, steps, res, initial)[root_step.id]
             IN  IF root_result = <<>> THEN [kind |-> "null"]
                 ELSE IF is_single
                 THEN (IF Len(root_items) > 0
                       THEN [kind |-> "single", data |-> root_items[1]]
                       ELSE [kind |-> "null"])
                 ELSE [kind |-> "list", items |-> root_items,
                       pagination |->
                           [total |-> root_result[1].total,
                            limit |-> root_result[1].limit,
                            offset |-> root_result[1].offset,
                            has_next |-> has_next(root_result[1])]]

\* ------------------------------------------------------------------ inputs
\* Bounds of the enumerated client requests.
MaxFilters == 2
MaxRelNodes == 2

Entry(key, value) == [name |-> key, value |-> value]

\* Candidate raw filter keys: bare field, field__op, unknown field, unsupported
\* operator, operator the field does not allow, and a key with two "__".
FilterKeys ==
    {<<"id">>, <<"id", "eq">>, <<"id", "in">>, <<"code">>, <<"code", "eq">>,
     <<"code", "in">>, <<"name", "icontains">>, <<"name", "gte">>,
     <<"id", "regex">>, <<"bogus", "eq">>, <<"id", "eq", "in">>}

FilterValues == {IntV(5), ListV(<<IntV(5)>>)}

FilterEntries == {Entry(k, v) : k \in FilterKeys, v \in FilterValues}

RECURSIVE DictsUpTo(_, _)
\* ordered dicts of at most n entries with pairwise distinct keys
DictsUpTo(entries, n) ==
    IF n = 0 THEN {<<>>}
    ELSE LET shorter == DictsUpTo(entries, n - 1)
         IN  shorter \cup
             UNION {{<<e>> \o d : d \in {x \in shorter :
                                           /\ Len(x) = n - 1
                                           /\ \A i \in 1..Len(x) : x[i].name # e.name}} :
                    e \in entries}

RawFilterDicts == DictsUpTo(FilterEntries, MaxFilters)

Shape(fields, filters, order, limit) ==
    [fields |-> fields, filters |-> filters, order |-> order,
     limit |-> limit, offset |-> 0]

PlainShape == Shape(<<>>, <<>>, <<>>, <<>>)

\* Shapes of a relation node: plain, valid decorations, and one invalid.
RelShapes ==
    {PlainShape,
     Shape(<<"name">>, <<Entry(<<"name", "icontains">>, StrV("a"))>>,
           <<<<"-", "name">>>>, <<10>>),
     Shape(<<"name", "bogus">>, <<>>, <<>>, <<>>)}

\* Shapes of the root node: each kind of invalid selection on its own.
RootShapes ==
    RelShapes \cup
    {Shape(<<"name">>, <<Entry(<<"name", "gte">>, IntV(5))>>, <<>>, <<>>),
     Shape(<<"name">>, <<>>, <<<<"rc_id">>>>, <<>>),
     Shape(<<"name">>, <<>>, <<<<"-", "bogus">>>>, <<>>)}

WithRelations(shape, relations) ==
    [fields |-> shape.fields, filters |-> shape.filters, order |-> shape.order,
     limit |-> shape.limit, offset |-> shape.offset, relations |-> relations]

RECURSIVE CountRelNodes(_)
CountRelNodes(sel) ==
    IF Len(sel.relations) = 0 THEN 0
    ELSE 1 + CountRelNodes(sel.relations[1].sel)
           + CountRelNodes(WithRelations(sel, Tail(sel.relations)))

\* the relation names a client may put under a node of `entity`: the entity's own
\* relations and the names in `extra`
RelationChoices(entity, extra) ==
    IF entity \in EntityNames
    THEN {d.name : d \in Range(GraphEntities[entity].relations)} \cup extra
    ELSE extra

\* the entity a relation node of `entity` selects from; None for an unknown name
ChoiceTarget(entity, name) ==
    IF entity \in EntityNames
       /\ \E d \in Range(GraphEntities[entity].relations) : d.name = name
    THEN (CHOOSE d \in Range(GraphEntities[entity].relations) : d.name = name).target
    ELSE None

RECURSIVE Trees(_, _, _, _, _)
\* selection trees for `entity`: `shapes` at this node, `below` under it, at most n
\* relation nodes in all, sibling relations with distinct names; nothing is
\* selected under a relation the entity does not have
Trees(entity, shapes, below, extra, n) ==
    IF n = 0 THEN {WithRelations(s, <<>>) : s \in shapes}
    ELSE LET smaller == Trees(entity, shapes, below, extra, n - 1)
             Under(r) == IF ChoiceTarget(entity, r) = None
                         THEN {WithRelations(PlainShape, <<>>)}
                         ELSE Trees(ChoiceTarget(entity, r), below, below, extra, n - 1)
         IN  smaller \cup
             UNION {{WithRelations(tc[1], <<[name |-> r, sel |-> tc[2]]>> \o tc[1].relations) :
                        tc \in {x \in smaller \X Under(r) :
                                  /\ \A i \in 1..Len(x[1].relations) :
                                         x[1].relations[i].name # r
                                  /\ CountRelNodes(x[1]) + CountRelNodes(x[2]) + 1 <= n}} :
                    r \in RelationChoices(entity, extra)}

RawQuery(entity, filters, select) ==
    [action |-> "query", entity |-> entity, filters |-> filters, select |-> select]

QueryEntities == EntityNames \cup {"Ghost"}

\* Requests for the validator: every filter dict over a plain selection, and
\* every selection tree without root filters.
ValidatorQueries ==
    {RawQuery(e, f, WithRelations(PlainShape, <<>>)) :
        e \in QueryEntities, f \in RawFilterDicts}
    \cup
    UNION {{RawQuery(e, <<>>, t) :
               t \in Trees(e, RootShapes, RelShapes, {"bogus_rel"}, MaxRelNodes)} :
           e \in QueryEntities}

\* ------------------------------------------------------------------ validator run
PipelineIdle ==
    /\ iam = <<>>
    /\ plan_steps = <<>>
    /\ final_steps = <<>>
    /\ sorted_steps = <<>>
    /\ idx = 0
    /\ results = <<>>
    /\ inflight = {}
    /\ fetches = <<>>
    /\ exec_error = <<>>
    /\ response = <<>>
    /\ step_counter = 0
    /\ previous_plan = <<>>
    /\ transaction = <<>>
    /\ tx_step = 0
    /\ variables = <<>>
    /\ completed_creates = <<>>
    /\ compensations = <<>>
    /\ mutation = <<>>
    /\ posts = <<>>
    /\ mutation_results = <<>>
    /\ tx_result = <<>>

InitValidator ==
    /\ query \in ValidatorQueries
    /\ pc = "start"
    /\ errors = <<>>
    /\ normalized = <<>>
    /\ http_status = 0
    /\ PipelineIdle

\* _execute_single_query, step 1: validate, answer 400 on any error.
Validate ==
    /\ pc = "start"
    /\ LET r == validate_and_normalize(query)
       IN  /\ errors' = r.errors
           /\ normalized' = r.query
           /\ IF Len(r.errors) > 0 \/ r.query = <<>>
              THEN pc' = "rejected" /\ http_status' = 400
              ELSE pc' = "validated" /\ http_status' = 0
    /\ UNCHANGED <<planner_vars, mutation_vars, transaction_vars, query, pipeline_vars>>

NextValidator == Validate

SpecValidator == InitValidator /\ [][NextValidator]_vars

\* ------------------------------------------------------------------ pipeline run
Scope(field, values) == [field |-> field, op |-> "in", values |-> values]

IAMResponse(allow, scopes, field_masks, relation_masks) ==
    [allow |-> allow, scopes |-> scopes, field_masks |-> field_masks,
     relation_masks |-> relation_masks]

TenantScopes == <<Scope("rc_id", <<IntV(1), IntV(2)>>), Scope("rc_id", <<IntV(1)>>)>>

\* The answers check_access can give: deny, allow with or without scopes, and
\* allow with a field mask or a relation mask.
IAMResponses ==
    {IAMResponse(FALSE, <<>>, <<>>, <<>>),
     IAMResponse(TRUE, <<>>, <<>>, <<>>),
     IAMResponse(TRUE, TenantScopes, <<>>, <<>>),
     IAMResponse(TRUE, TenantScopes, <<[name |-> "Person", fields |-> <<"name">>]>>, <<>>),
     IAMResponse(TRUE, <<>>, <<>>, <<[name |-> "Person", relations |-> <<"employer">>]>>),
     IAMResponse(TRUE, TenantScopes, <<>>,
                 <<[name |-> "Person", relations |-> <<"owned">>],
                   [name |-> "Company", relations |-> <<"staff">>]>>)}

PipelineFilterDicts ==
    {<<>>,
     <<Entry(<<"id", "eq">>, IntV(1))>>,
     <<Entry(<<"rc_id", "in">>, ListV(<<IntV(9)>>))>>}

PipelineRootShapes == {PlainShape, Shape(<<"name", "bogus">>, <<>>, <<>>, <<>>)}

PipelineRelShapes ==
    {PlainShape,
     Shape(<<"name">>, <<Entry(<<"name", "icontains">>, StrV("a"))>>, <<>>, <<10>>)}

\* Requests for the whole pipeline.
PipelineQueries ==
    UNION {{RawQuery(e, f, t) :
               f \in PipelineFilterDicts,
               t \in Trees(e, PipelineRootShapes, PipelineRelShapes, {}, MaxRelNodes)} :
           e \in {"Person", "Company", "Property", "Ghost"}}

Init ==
    /\ query \in PipelineQueries
    /\ pc = "start"
    /\ errors = <<>>
    /\ normalized = <<>>
    /\ http_status = 0
    /\ PipelineIdle

\* A boundary that records the IAM answer but goes on whatever it says.
CheckAccessIgnored ==
    /\ pc = "validated"
    /\ \E r \in IAMResponses : iam' = <<r>>
    /\ pc' = "allowed"
    /\ UNCHANGED <<planner_vars, mutation_vars, transaction_vars, query, errors, normalized, http_status, plan_steps, final_steps,
                   sorted_steps, idx, results, inflight, fetches, exec_error, response>>

\* step 2: the IAM check; a denial answers 403 before anything is planned
CheckAccess ==
    /\ pc = "validated"
    /\ \E r \in IAMResponses :
          /\ iam' = <<r>>
          /\ IF r.allow
             THEN pc' = "allowed" /\ http_status' = http_status
             ELSE pc' = "denied" /\ http_status' = 403
    /\ UNCHANGED <<planner_vars, mutation_vars, transaction_vars, query, errors, normalized, plan_steps, final_steps, sorted_steps, idx,
                   results, inflight, fetches, exec_error, response>>

\* step 3: planner.plan(normalized_query)
Plan ==
    /\ pc = "allowed"
    /\ plan_steps' = plan(normalized[1])
    /\ pc' = "planned"
    /\ UNCHANGED <<planner_vars, mutation_vars, transaction_vars, query, errors, normalized, http_status, iam, final_steps, sorted_steps,
                   idx, results, inflight, fetches, exec_error, response>>

\* step 4: inject_guards, filter_masked_fields, filter_masked_relations
GuardPass ==
    /\ pc = "planned"
    /\ final_steps' = filter_masked_relations(
                    filter_masked_fields(inject_guards(plan_steps, iam[1]), iam[1]),
                    iam[1])
    /\ pc' = "guarded"
    /\ UNCHANGED <<planner_vars, mutation_vars, transaction_vars, query, errors, normalized, http_status, iam, plan_steps,
                   sorted_steps, idx, results, inflight, fetches, exec_error, response>>

\* execute, before the loop: the topological sort and the empty results map
ExecuteStart ==
    /\ pc = "guarded"
    /\ sorted_steps' = topological_sort(final_steps)
    /\ idx' = 1
    /\ results' = <<>>
    /\ pc' = "executing"
    /\ UNCHANGED <<planner_vars, mutation_vars, transaction_vars, query, errors, normalized, http_status, iam, plan_steps, final_steps,
                   inflight, fetches, exec_error, response>>

\* the requests _execute_step sends for a step: none when it short-circuits
RequestsOf(step, res) ==
    IF ShortCircuits(step, AllFilters(step, res)) THEN {}
    ELSE {FetchRequest(step, get_service_url(step.service), AllFilters(step, res))}

\* one iteration of the loop up to its await: the step fails for want of a
\* service, short-circuits to an empty result, or reaches the call of
\* client.fetch. The call names step.resource and an `entity` argument, which
\* the PlanStep and the fetch signature of planner.py and service_client.py do
\* not have, so building the call can raise before anything is sent; with a
\* PlanStep and a client that match the call, the request goes out.
ExecuteStep ==
    /\ pc = "executing"
    /\ inflight = {}
    /\ idx <= Len(sorted_steps)
    /\ LET step == sorted_steps[idx]
       IN  IF get_service_url(step.service) = None
           THEN /\ exec_error' = <<ExecuteRaises([type |-> "ExecutionError"], step.id)>>
                /\ http_status' = BoundaryStatus(exec_error'[1])
                /\ pc' = "failed"
                /\ UNCHANGED <<idx, results, inflight, fetches>>
           ELSE IF RequestsOf(step, results) = {}
           THEN /\ results' = Append(results,
                                     QueryResponse(step.id, <<>>, 0, step.limit,
                                                   step.offset))
                /\ idx' = idx + 1
                /\ UNCHANGED <<pc, http_status, inflight, fetches, exec_error>>
           ELSE \/ /\ inflight' = RequestsOf(step, results)
                   /\ fetches' = Append(fetches, FetchRequest(step,
                                            get_service_url(step.service),
                                            AllFilters(step, results)))
                   /\ UNCHANGED <<pc, http_status, idx, results, exec_error>>
                \/ /\ exec_error' = <<ExecuteRaises([type |-> "AttributeError"],
                                                     step.id)>>
                   /\ http_status' = BoundaryStatus(exec_error'[1])
                   /\ pc' = "failed"
                   /\ UNCHANGED <<idx, results, inflight, fetches>>
    /\ UNCHANGED <<planner_vars, mutation_vars, transaction_vars, query, errors, normalized, iam, plan_steps, final_steps, sorted_steps,
                   response>>

\* the awaited fetch returns rows: results[step.id] = result, next iteration
FetchReturns ==
    /\ pc = "executing"
    /\ \E request \in inflight :
          \E items \in BackendItems(request) :
              /\ results' = Append(results,
                                   QueryResponse(request.step_id, items, Len(items),
                                                 request.limit, request.offset))
              /\ inflight' = inflight \ {request}
    /\ idx' = idx + 1
    /\ UNCHANGED <<planner_vars, mutation_vars, transaction_vars, query, pc, errors, normalized, http_status, iam, plan_steps, final_steps,
                   sorted_steps, fetches, exec_error, response>>

\* An executor that notes the failure and goes on with the next step.
FetchFailsAndContinues ==
    /\ pc = "executing"
    /\ \E request \in inflight :
          /\ exec_error' = <<ExecuteRaises([type |-> "ServiceError"], request.step_id)>>
          /\ results' = Append(results,
                               QueryResponse(request.step_id, <<>>, 0, request.limit,
                                             request.offset))
          /\ inflight' = inflight \ {request}
    /\ idx' = idx + 1
    /\ UNCHANGED <<planner_vars, mutation_vars, transaction_vars, query, pc, errors, normalized, http_status, iam, plan_steps,
                   final_steps, sorted_steps, fetches, response>>

\* the awaited fetch raises ServiceError (non-200 answer or network error)
FetchFails ==
    /\ pc = "executing"
    /\ \E request \in inflight :
          \E status \in FailureStatuses :
              /\ exec_error' =
                    <<ExecuteRaises([type |-> "ServiceError",
                                     service |-> request.service_url,
                                     status_code |-> <<status>>],
                                    request.step_id)>>
              /\ inflight' = inflight \ {request}
    /\ http_status' = BoundaryStatus(exec_error'[1])
    /\ pc' = "failed"
    /\ UNCHANGED <<planner_vars, mutation_vars, transaction_vars, query, errors, normalized, iam, plan_steps, final_steps, sorted_steps,
                   idx, results, fetches, response>>

\* execute returned the results map; step 6 assembles the response
Assemble ==
    /\ pc = "executing"
    /\ inflight = {}
    /\ idx > Len(sorted_steps)
    /\ response' = <<assemble(final_steps, results, normalized[1].is_single)>>
    /\ http_status' = 200
    /\ pc' = "done"
    /\ UNCHANGED <<planner_vars, mutation_vars, transaction_vars, query, errors, normalized, iam, plan_steps, final_steps, sorted_steps,
                   idx, results, inflight, fetches, exec_error>>

Next ==
    \/ Validate
    \/ CheckAccess
    \/ Plan
    \/ GuardPass
    \/ ExecuteStart
    \/ ExecuteStep
    \/ FetchReturns
    \/ FetchFails
    \/ Assemble

Spec == Init /\ [][Next]_vars

\* ------------------------------------------------------------------ a kept planner
\* position of the step named id in a plan
IndexOfStep(steps, id) == CHOOSE i \in 1..Len(steps) : steps[i].id = id

\* the id the step named id gets when the counter started at offset
ShiftedId(steps, id, offset) ==
    IF id = None THEN None
    ELSE StepId(steps[IndexOfStep(steps, id)].entity, offset + IndexOfStep(steps, id))

\* a plan whose ids were drawn from a counter that started at offset
Renumbered(steps, offset) ==
    [i \in 1..Len(steps) |->
        [steps[i] EXCEPT !.id = ShiftedId(steps, steps[i].id, offset),
                         !.depends_on = ShiftedId(steps, steps[i].depends_on, offset),
                         !.attach_to_step_id =
                             ShiftedId(steps, steps[i].attach_to_step_id, offset),
                         !.link_through_step_id =
                             ShiftedId(steps, steps[i].link_through_step_id, offset)]]

\* plan() of a planner that goes on counting where the call before stopped
QueryPlanner_plan_no_reset(counter_before, q) ==
    [steps |-> Renumbered(plan(q), counter_before),
     step_counter |-> counter_before + Len(plan(q))]

\* QueryPlanner.plan as a method: the counter is set to 0 first, every step
\* created takes the next number, and the counter stays where the plan ended.
QueryPlanner_plan(counter_before, q) ==
    [steps |-> plan(q), step_counter |-> Len(plan(q))]

\* the NormalizedQuery objects plan() is handed: every valid request
PlannerQueries == {q \in ValidatorQueries : Len(validate_and_normalize(q).errors) = 0 /\ validate_and_normalize(q).query # <<>>}

\* one planner is constructed (counter 0) and is handed one NormalizedQuery
InitPlanner ==
    /\ query \in PlannerQueries
    /\ pc = "planner"
    /\ errors = <<>>
    /\ normalized = validate_and_normalize(query).query
    /\ http_status = 0
    /\ PipelineIdle

\* planner.plan(query), on the same planner and the same query each time
PlanCall ==
    /\ pc = "planner"
    /\ LET r == QueryPlanner_plan(step_counter, normalized[1])
       IN  /\ plan_steps' = r.steps
           /\ step_counter' = r.step_counter
    /\ previous_plan' = IF step_counter = 0 THEN <<>> ELSE <<plan_steps>>
    /\ UNCHANGED <<mutation_vars, transaction_vars, query, pc, errors, normalized, http_status, iam,
                   final_steps, sorted_steps, idx, results, inflight, fetches, exec_error,
                   response>>

NextPlanner == PlanCall

SpecPlanner == InitPlanner /\ [][NextPlanner]_vars

\* ------------------------------------------------------------------ assembler run
\* Bound of the rows one step result holds.
MaxRows == 2

\* Rows a step result may hold, whatever the services answered.
AssembleTables ==
    [Person |->
        <<[id |-> IntV(1), name |-> StrV("Ann"), company_code |-> StrV("c1"),
           rc_id |-> IntV(1)],
          [id |-> IntV(2), name |-> StrV("Bob"), company_code |-> StrV("c1"),
           rc_id |-> IntV(2)],
          [id |-> IntV(3), name |-> StrV("Cy"), company_code |-> NullV,
           rc_id |-> IntV(2)]>>,
     Company |->
        <<[code |-> StrV("c1"), name |-> StrV("Acme")],
          [code |-> StrV("c1"), name |-> StrV("Acme2")],
          [code |-> StrV("c2"), name |-> StrV("Bolt")]>>,
     Property |->
        <<[id |-> IntV(10), name |-> StrV("X"), rc_id |-> IntV(1)],
          [id |-> IntV(11), name |-> StrV("Y"), rc_id |-> IntV(1)],
          [id |-> IntV(1), name |-> StrV("Z"), rc_id |-> IntV(1)]>>,
     Relationship |->
        <<[id |-> IntV(100), subject_id |-> IntV(1), object_id |-> IntV(10),
           relationship_type |-> StrV("owner"), status |-> StrV("active")],
          [id |-> IntV(101), subject_id |-> IntV(10), object_id |-> IntV(1),
           relationship_type |-> StrV("owner"), status |-> StrV("active")],
          [id |-> IntV(102), subject_id |-> IntV(11), object_id |-> IntV(1),
           relationship_type |-> StrV("owner"), status |-> StrV("active")]>>]

Sel(fields, relations) == WithRelations(Shape(fields, <<>>, <<>>, <<>>), relations)

Rel(name, sel) == [name |-> name, sel |-> sel]

\* Requests whose plans the assembler is run on: each relation kind and
\* direction at the root, a relation below a relation, and a single-item query.
AssembleQueries ==
    {RawQuery("Person", <<>>, Sel(<<>>, <<Rel("owned", Sel(<<"name">>, <<>>))>>)),
     RawQuery("Person", <<Entry(<<"id", "eq">>, IntV(1))>>,
              Sel(<<>>, <<Rel("owned", Sel(<<"name">>, <<>>))>>)),
     RawQuery("Property", <<>>, Sel(<<>>, <<Rel("owners", Sel(<<"name">>, <<>>))>>)),
     RawQuery("Person", <<>>,
              Sel(<<"company_code">>, <<Rel("employer", Sel(<<"name">>, <<>>))>>)),
     RawQuery("Person", <<>>,
              Sel(<<"company_code">>,
                  <<Rel("employer",
                        Sel(<<"name">>, <<Rel("staff", Sel(<<>>, <<>>))>>))>>)),
     RawQuery("Company", <<>>,
              Sel(<<>>, <<Rel("staff", Sel(<<>>, <<Rel("owned", Sel(<<>>, <<>>))>>))>>)),
     RawQuery("Person", <<>>,
              Sel(<<"company_code">>,
                  <<Rel("employer", Sel(<<>>, <<>>)), Rel("owned", Sel(<<>>, <<>>))>>))}

\* the row lists one step's result may hold: at most MaxRows rows of the step's
\* entity, in table order, cut to the step's select_fields
ResultItems(step) ==
    {[i \in 1..Len(rows) |-> ModelToDict(rows[i], step.select_fields)] :
        rows \in {r \in SubSeqs(AssembleTables[step.entity]) : Len(r) <= MaxRows}}

RECURSIVE ResultsOf(_)
\* every results map execute() can hand over for these steps: one
\* InternalQueryResponse per step, in execution order
ResultsOf(steps) ==
    IF Len(steps) = 0 THEN {<<>>}
    ELSE {<<QueryResponse(Head(steps).id, items, Len(items), Head(steps).limit,
                          Head(steps).offset)>> \o rest :
             items \in ResultItems(Head(steps)), rest \in ResultsOf(Tail(steps))}

\* execute() has returned: a valid request was planned and every step has a result
InitAssemble ==
    /\ query \in AssembleQueries
    /\ pc = "executing"
    /\ errors = <<>>
    /\ normalized = validate_and_normalize(query).query
    /\ http_status = 0
    /\ iam = <<IAMResponse(TRUE, <<>>, <<>>, <<>>)>>
    /\ plan_steps = plan(normalized[1])
    /\ final_steps = plan_steps
    /\ sorted_steps = topological_sort(final_steps)
    /\ idx = Len(sorted_steps) + 1
    /\ results \in ResultsOf(sorted_steps)
    /\ inflight = {}
    /\ fetches = <<>>
    /\ exec_error = <<>>
    /\ response = <<>>
    /\ step_counter = 0
    /\ previous_plan = <<>>
    /\ transaction = <<>>
    /\ tx_step = 0
    /\ variables = <<>>
    /\ completed_creates = <<>>
    /\ compensations = <<>>
    /\ mutation = <<>>
    /\ posts = <<>>
    /\ mutation_results = <<>>
    /\ tx_result = <<>>

NextAssemble == Assemble

SpecAssemble == InitAssemble /\ [][NextAssemble]_vars

\* ------------------------------------------------------------------ pagination run
\* Bounds of the root result's page data.
MaxTotal == 25
MaxLimit == 10
MaxOffset == 20
MaxItems == 10

\* n rows of a root result
PageItems(n) == [k \in 1..n |-> [id |-> IntV(k)]]

\* the root results a service may answer a list query with
PageResults(step) ==
    {QueryResponse(step.id, PageItems(n), total, limit, offset) :
        n \in 0..MaxItems, total \in 0..MaxTotal, offset \in 0..MaxOffset,
        limit \in {<<>>} \cup {<<l>> : l \in 0..MaxLimit}}

\* execute() has returned the root result of a list query without relations
InitPagination ==
    /\ query = RawQuery("Person", <<>>, Sel(<<>>, <<>>))
    /\ pc = "executing"
    /\ errors = <<>>
    /\ normalized = validate_and_normalize(query).query
    /\ http_status = 0
    /\ iam = <<IAMResponse(TRUE, <<>>, <<>>, <<>>)>>
    /\ plan_steps = plan(normalized[1])
    /\ final_steps = plan_steps
    /\ sorted_steps = topological_sort(final_steps)
    /\ idx = Len(sorted_steps) + 1
    /\ \E r \in PageResults(sorted_steps[1]) : results = <<r>>
    /\ inflight = {}
    /\ fetches = <<>>
    /\ exec_error = <<>>
    /\ response = <<>>
    /\ step_counter = 0
    /\ previous_plan = <<>>
    /\ transaction = <<>>
    /\ tx_step = 0
    /\ variables = <<>>
    /\ completed_creates = <<>>
    /\ compensations = <<>>
    /\ mutation = <<>>
    /\ posts = <<>>
    /\ mutation_results = <<>>
    /\ tx_result = <<>>

NextPagination == Assemble

SpecPagination == InitPagination /\ [][NextPagination]_vars

\* ------------------------------------------------------------------ mutations
\* EntityMutation (core/request_parser.py): filters is a raw filter dict
EntityMutation(entity, operation, data, filters) ==
    [entity |-> entity, operation |-> operation, data |-> data, filters |-> filters]

\* EntityMutation.from_dict / TransactionStep.from_dict: a non-null "id" replaces
\* the filters by {"id__eq": id}; otherwise data.get("filters", {})
from_dict_filters(body) ==
    IF body.id # <<>> /\ body.id[1] # NullV
    THEN <<Entry(<<"id", "eq">>, body.id[1])>>
    ELSE body.filters

\* MutationExecutor._normalize_filters
normalize_mutation_filters(filters) ==
    [i \in 1..Len(filters) |->
        NormalizedFilter(ParseFilterKey(filters[i].name).field_name,
                         ParseFilterKey(filters[i].name).op, filters[i].value)]

\* MutationExecutor.validate_mutation: the errors of a mutation; no path of the
\* gateway calls it
validate_mutation(m) ==
    IF m.entity \notin EntityNames THEN <<"Unknown entity: " \o m.entity>>
    ELSE IF m.operation \in {"update", "rewrite", "delete"} /\ Len(m.filters) = 0
    THEN <<m.operation \o " requires filters">>
    ELSE <<>>

MutationResult(entity, operation, success, data, error, count) ==
    [entity |-> entity, operation |-> operation, success |-> success, data |-> data,
     error |-> error, count |-> count]

\* the POST MutationExecutor.execute sends
MutationPost(m) ==
    [endpoint |-> <<get_service_url(GraphEntities[m.entity].service), "internal",
                    m.operation>>,
     entity |-> m.entity, operation |-> m.operation, data |-> m.data,
     filters |-> normalize_mutation_filters(m.filters)]

\* What a service can answer a POST with.  The bundled handlers
\* (service/internal_api.py:175, 207, 244) answer update, rewrite and delete
\* without filters with 400; every call can fail on the network or with a 5xx.
MutationAnswers(post) ==
    {[kind |-> "http_error", status_code |-> 0, items |-> <<>>, count |-> 0],
     [kind |-> "status", status_code |-> 500, items |-> <<>>, count |-> 0]}
    \cup
    (IF post.operation \in {"update", "rewrite", "delete"} /\ Len(post.filters) = 0
     THEN {[kind |-> "status", status_code |-> 400, items |-> <<>>, count |-> 0]}
     ELSE IF post.operation = "delete"
     THEN {[kind |-> "ok", status_code |-> 200, items |-> <<>>, count |-> 1]}
     ELSE {[kind |-> "ok", status_code |-> 200, items |-> <<[id |-> IntV(7)]>>,
            count |-> 1],
           [kind |-> "ok", status_code |-> 200, items |-> <<>>, count |-> 0]}
          \cup
          \* _handle_create answers with the response fields the instance has
          \* (service/internal_api.py:164-165, 314-325): no "id" when the step's response
          \* list leaves it out or the model has no such attribute
          (IF post.operation = "create"
           THEN {[kind |-> "ok", status_code |-> 200,
                  items |-> <<[code |-> StrV("c9"), name |-> NullV]>>, count |-> 1]}
           ELSE {}))

\* MutationExecutor.execute once the service URL is known and the POST was
\* answered
MutationOutcome(m, answer) ==
    IF answer.kind = "http_error"
    THEN MutationResult(m.entity, m.operation, FALSE, NullV, "HTTP error", 0)
    ELSE IF answer.status_code >= 400
    THEN MutationResult(m.entity, m.operation, FALSE, NullV, "Service error", 0)
    ELSE MutationResult(m.entity, m.operation, TRUE,
                        IF m.operation = "create"
                        THEN (IF Len(answer.items) > 0 THEN ObjV(answer.items[1])
                              ELSE NullV)
                        ELSE IF m.operation = "delete" THEN NullV
                        ELSE ListV([i \in 1..Len(answer.items) |-> ObjV(answer.items[i])]),
                        "", answer.count)

\* MutationExecutor.execute: every [result, posts] it can end with.  An unknown
\* entity raises in get_service_url and is reported as a failed result.
mutation_execute(m) ==
    IF m.entity \notin EntityNames
    THEN {[result |-> MutationResult(m.entity, m.operation, FALSE, NullV,
                                     "Execution error", 0),
           posts |-> <<>>]}
    ELSE {[result |-> MutationOutcome(m, answer), posts |-> <<MutationPost(m)>>] :
             answer \in MutationAnswers(MutationPost(m))}

MutationOperations == {"create", "update", "rewrite", "delete"}

\* bodies of one mutation: "id" absent, null or set; "filters" empty or one filter
MutationBodies ==
    {[id |-> id, filters |-> filters, data |-> <<Entry("name", StrV("N"))>>] :
        id \in {<<>>, <<NullV>>, <<IntV(7)>>},
        filters \in {<<>>, <<Entry(<<"id", "eq">>, IntV(1))>>}}

\* A mutation request: the path it comes in on (a mutation of the unified
\* endpoint, a REST endpoint, a one-step transaction), its entity, operation and
\* body, and for a transaction on_error and the step's optional flag.
MutationRequests ==
    {[path |-> path, entity |-> entity, operation |-> operation, body |-> body,
      on_error |-> None, optional |-> FALSE] :
        path \in {"mutations", "rest"}, entity \in {"Person", "Ghost"},
        operation \in MutationOperations, body \in MutationBodies}
    \cup
    {[path |-> "transaction", entity |-> entity, operation |-> operation,
      body |-> body, on_error |-> on_error, optional |-> optional] :
        entity \in {"Person", "Ghost"}, operation \in MutationOperations,
        body \in MutationBodies, on_error \in {"rollback", "stop", "continue"},
        optional \in BOOLEAN}

InitMutation ==
    /\ query = <<>>
    /\ pc = "mutation"
    /\ errors = <<>>
    /\ normalized = <<>>
    /\ http_status = 0
    /\ iam = <<>>
    /\ plan_steps = <<>>
    /\ final_steps = <<>>
    /\ sorted_steps = <<>>
    /\ idx = 0
    /\ results = <<>>
    /\ inflight = {}
    /\ fetches = <<>>
    /\ exec_error = <<>>
    /\ response = <<>>
    /\ step_counter = 0
    /\ previous_plan = <<>>
    /\ transaction = <<>>
    /\ tx_step = 0
    /\ variables = <<>>
    /\ completed_creates = <<>>
    /\ compensations = <<>>
    /\ \E m \in MutationRequests : mutation = <<m>>
    /\ posts = <<>>
    /\ mutation_results = <<>>
    /\ tx_result = <<>>

\* execute_request with one mutation: RequestParser.parse answers 400 for an
\* unknown entity, otherwise _execute_mutations runs executor.execute
ExecuteMutations ==
    /\ pc = "mutation"
    /\ mutation[1].path = "mutations"
    /\ IF mutation[1].entity \notin EntityNames
       THEN /\ pc' = "rejected"
            /\ http_status' = 400
            /\ UNCHANGED <<posts, mutation_results>>
       ELSE \E r \in mutation_execute(EntityMutation(mutation[1].entity,
                                                     mutation[1].operation,
                                                     mutation[1].body.data,
                                                     from_dict_filters(mutation[1].body))) :
               /\ posts' = posts \o r.posts
               /\ mutation_results' = Append(mutation_results, r.result)
               /\ pc' = "mutation_done"
               /\ http_status' = 200
    /\ UNCHANGED <<planner_vars, transaction_vars, mutation, tx_result, query, errors, normalized, iam,
                   plan_steps, final_steps, sorted_steps, idx, results, inflight,
                   fetches, exec_error, response>>

\* rest_create / rest_update / rest_rewrite / rest_delete: 404 for an unknown
\* entity; create takes no filters, the others body.get("filters", {})
RestMutation ==
    /\ pc = "mutation"
    /\ mutation[1].path = "rest"
    /\ IF mutation[1].entity \notin EntityNames
       THEN /\ pc' = "rejected"
            /\ http_status' = 404
            /\ UNCHANGED <<posts, mutation_results>>
       ELSE \E r \in mutation_execute(EntityMutation(mutation[1].entity,
                                                     mutation[1].operation,
                                                     IF mutation[1].operation = "delete"
                                                     THEN <<>>
                                                     ELSE mutation[1].body.data,
                                                     IF mutation[1].operation = "create"
                                                     THEN <<>>
                                                     ELSE mutation[1].body.filters)) :
               /\ posts' = posts \o r.posts
               /\ mutation_results' = Append(mutation_results, r.result)
               /\ pc' = "mutation_done"
               /\ http_status' = 200
    /\ UNCHANGED <<planner_vars, transaction_vars, mutation, tx_result, query, errors, normalized, iam,
                   plan_steps, final_steps, sorted_steps, idx, results, inflight,
                   fetches, exec_error, response>>

\* TransactionResult of a one-step transaction whose step ended with result
TransactionOutcome(m, result) ==
    IF result.success \/ m.optional \/ m.on_error = "continue"
    THEN [success |-> TRUE, rolled_back |-> FALSE]
    ELSE IF m.on_error = "stop" THEN [success |-> FALSE, rolled_back |-> FALSE]
    ELSE [success |-> FALSE, rolled_back |-> TRUE]

\* TransactionExecutor.execute on a transaction of one mutation step: the step's
\* filters have no variable reference, so _resolve_refs leaves them as they are
ExecuteTransaction ==
    /\ pc = "mutation"
    /\ mutation[1].path = "transaction"
    /\ \E r \in mutation_execute(EntityMutation(mutation[1].entity, mutation[1].operation,
                                                mutation[1].body.data,
                                                from_dict_filters(mutation[1].body))) :
          /\ posts' = posts \o r.posts
          /\ mutation_results' = Append(mutation_results, r.result)
          /\ tx_result' = <<TransactionOutcome(mutation[1], r.result)>>
    /\ pc' = "mutation_done"
    /\ http_status' = 200
    /\ UNCHANGED <<planner_vars, transaction_vars, mutation, query, errors, normalized, iam, plan_steps,
                   final_steps, sorted_steps, idx, results, inflight, fetches,
                   exec_error, response>>

NextMutation ==
    \/ ExecuteMutations
    \/ RestMutation
    \/ ExecuteTransaction

SpecMutation == InitMutation /\ [][NextMutation]_vars

\* ------------------------------------------------------------------ transactions
\* A string that holds variable references is kept as the parts VAR_PATTERN
\* (\$(\w+)(?:\.(\w+))?) splits it into: literal text and references. A string
\* without a reference is a StrV.
TplV(parts) == [t |-> "tpl", v |-> parts]

Lit(text) == [kind |-> "lit", text |-> text, var |-> None, field |-> None]

\* the reference $var or $var.field; text is m.group(0)
Ref(var, field) ==
    [kind |-> "ref", text |-> "$" \o var \o (IF field = None THEN "" ELSE "." \o field),
     var |-> var, field |-> field]

\* str(value)
PyStr(val) ==
    IF val.t \in {"int", "str"} THEN val.v
    ELSE IF val.t = "list" THEN "[...]"
    ELSE IF val.t = "obj" THEN "{...}"
    ELSE "None"

\* _get_var_value: [ok, value]; ok is FALSE where the code raises ExecutionError
get_var_value(var_name, field_name, bound) ==
    IF Lookup(bound, var_name) = <<>> THEN [ok |-> FALSE, value |-> NullV]
    ELSE LET value == Lookup(bound, var_name)[1].value
         IN  IF field_name = None THEN [ok |-> TRUE, value |-> value]
             ELSE IF value.t = "obj" /\ field_name \in DOMAIN value.v
             THEN [ok |-> TRUE, value |-> value.v[field_name]]
             ELSE [ok |-> FALSE, value |-> NullV]

RECURSIVE SubstituteRefs(_, _)
\* VAR_PATTERN.sub(replace_ref, data): str(value) for each reference, the
\* reference text itself when the value is None
SubstituteRefs(parts, bound) ==
    IF Len(parts) = 0 THEN ""
    ELSE (IF Head(parts).kind = "lit" THEN Head(parts).text
          ELSE LET got == get_var_value(Head(parts).var, Head(parts).field, bound)
               IN  IF got.value = NullV THEN Head(parts).text ELSE PyStr(got.value))
         \o SubstituteRefs(Tail(parts), bound)

\* _resolve_refs on a string, were every reference handled as an embedded one
resolve_string_substituted(parts, bound) ==
    IF \E i \in 1..Len(parts) :
          /\ parts[i].kind = "ref"
          /\ ~get_var_value(parts[i].var, parts[i].field, bound).ok
    THEN [ok |-> FALSE, value |-> NullV]
    ELSE [ok |-> TRUE, value |-> StrV(SubstituteRefs(parts, bound))]

\* _resolve_refs on a string
resolve_string(parts, bound) ==
    IF Len(parts) = 1 /\ parts[1].kind = "ref"
    THEN get_var_value(parts[1].var, parts[1].field, bound)
    ELSE IF \E i \in 1..Len(parts) :
               /\ parts[i].kind = "ref"
               /\ ~get_var_value(parts[i].var, parts[i].field, bound).ok
    THEN [ok |-> FALSE, value |-> NullV]
    ELSE [ok |-> TRUE, value |-> StrV(SubstituteRefs(parts, bound))]

RECURSIVE resolve_refs(_, _)
\* _resolve_refs on a value: strings resolved, dicts and lists walked, anything
\* else as it is; [ok, value]
resolve_refs(data, bound) ==
    IF data.t = "tpl" THEN resolve_string(data.v, bound)
    ELSE IF data.t = "obj"
    THEN [ok |-> \A f \in DOMAIN data.v : resolve_refs(data.v[f], bound).ok,
          value |-> ObjV([f \in DOMAIN data.v |-> resolve_refs(data.v[f], bound).value])]
    ELSE IF data.t = "list"
    THEN [ok |-> \A i \in 1..Len(data.v) : resolve_refs(data.v[i], bound).ok,
          value |-> ListV([i \in 1..Len(data.v) |-> resolve_refs(data.v[i], bound).value])]
    ELSE [ok |-> TRUE, value |-> data]

\* _resolve_refs on step.data / step.filters, a dict: the keys stay
resolve_dict(dict, bound) ==
    [ok |-> \A i \in 1..Len(dict) : resolve_refs(dict[i].value, bound).ok,
     value |-> [i \in 1..Len(dict) |->
                   Entry(dict[i].name, resolve_refs(dict[i].value, bound).value)]]

\* TransactionStep; alias is held as its characters' tokens (<<"$", "b">> is "$b",
\* <<>> is no alias)
TransactionStep(operation, entity, data, filters, alias, optional) ==
    [operation |-> operation, entity |-> entity, data |-> data, filters |-> filters,
     alias |-> alias, optional |-> optional]

\* Transaction
Transaction(tx_steps, on_error) == [steps |-> tx_steps, on_error |-> on_error]

\* TransactionResult; its results and variables are mutation_results and variables
TransactionResult(success, rolled_back) ==
    [success |-> success, rolled_back |-> rolled_back]

\* bool(result.data)
DataTruthy(val) ==
    /\ val # NullV
    /\ val.t = "list" => Len(val.v) > 0
    /\ val.t = "obj" => DOMAIN val.v # {}

RECURSIVE lstrip_dollar(_)
\* step.alias.lstrip("$")
lstrip_dollar(alias) ==
    IF Len(alias) > 0 /\ Head(alias) = "$" THEN lstrip_dollar(Tail(alias))
    ELSE IF Len(alias) = 0 THEN "" ELSE Head(alias)

\* variables[var_name] = result.data
Bind(bound, var_name, value) ==
    IF Lookup(bound, var_name) = <<>> THEN Append(bound, Entry(var_name, value))
    ELSE [i \in 1..Len(bound) |->
             IF bound[i].name = var_name THEN Entry(var_name, value) ELSE bound[i]]

\* _get_record_id: <<the id>>, <<>> for None
get_record_id(data) ==
    IF "id" \in DOMAIN data.v THEN <<data.v["id"]>>
    ELSE IF "pk" \in DOMAIN data.v THEN <<data.v["pk"]>>
    ELSE IF "_id" \in DOMAIN data.v THEN <<data.v["_id"]>>
    ELSE <<>>

\* (entity, record_id) of completed_creates
CreatedRecord(entity, record_id) == [entity |-> entity, record_id |-> record_id]

\* MutationExecutor.execute_compensation: one delete by the entity's first key,
\* answered below 400 (ok) or not
Compensation(created, ok) ==
    [entity |-> created.entity,
     field |-> IF Len(GraphEntities[created.entity].keys) > 0
               THEN GraphEntities[created.entity].keys[1] ELSE "id",
     value |-> created.record_id, ok |-> ok]

RECURSIVE compensate_until_failure(_)
\* _compensate, were a failed attempt to end the loop
compensate_until_failure(creates) ==
    IF Len(creates) = 0 THEN {<<>>}
    ELSE {<<Compensation(creates[Len(creates)], FALSE)>>}
         \cup {<<Compensation(creates[Len(creates)], TRUE)>> \o rest :
                  rest \in compensate_until_failure(SubSeq(creates, 1, Len(creates) - 1))}

RECURSIVE compensate(_)
\* _compensate: every run of the loop over reversed(completed_creates); an
\* attempt that fails is passed over
compensate(creates) ==
    IF Len(creates) = 0 THEN {<<>>}
    ELSE {<<Compensation(creates[Len(creates)], ok)>> \o rest :
             ok \in BOOLEAN, rest \in compensate(SubSeq(creates, 1, Len(creates) - 1))}

\* _execute_get_or_create as the router builds the executor (api/router.py:507-508,
\* no query_executor): a create, its result renamed
execute_get_or_create(step, resolved_data) ==
    {[result |-> [r.result EXCEPT !.operation = "get_or_create"], posts |-> r.posts] :
        r \in mutation_execute(EntityMutation(step.entity, "create", resolved_data, <<>>))}

\* what the step's operation runs: every [result, posts] it can end with
step_execute(step, resolved_data, resolved_filters) ==
    IF step.operation = "get_or_create" THEN execute_get_or_create(step, resolved_data)
    ELSE mutation_execute(EntityMutation(step.entity, step.operation, resolved_data,
                                         resolved_filters))

\* how execute goes on after the step's result: "return_rollback", "return_stop"
\* or "continue"
after_result(step, on_error, result) ==
    IF step.operation = "get_or_create"
    THEN (IF ~result.success /\ ~step.optional
          THEN (IF on_error = "rollback" THEN "return_rollback"
                ELSE IF on_error = "stop" THEN "return_stop"
                ELSE "continue")
          ELSE "continue")
    ELSE IF ~result.success
    THEN (IF step.optional THEN "continue"
          ELSE IF on_error = "continue" THEN "continue"
          ELSE IF on_error = "stop" THEN "return_stop"
          ELSE "return_rollback")
    ELSE "continue"

\* variables after the step's result
variables_after(step, result, bound) ==
    IF result.success /\ Len(step.alias) > 0 /\ DataTruthy(result.data)
    THEN Bind(bound, lstrip_dollar(step.alias), result.data)
    ELSE bound

\* completed_creates after the step's result: the get_or_create branch ends in
\* `continue` before the tracking code
completed_creates_after(step, result, creates) ==
    IF /\ step.operation = "create"
       /\ result.success
       /\ DataTruthy(result.data)
       /\ get_record_id(result.data) # <<>>
    THEN Append(creates, CreatedRecord(step.entity, get_record_id(result.data)[1]))
    ELSE creates

MaxTxSteps == 3

\* the steps transactions are built from
TxCreatePerson(optional) ==
    TransactionStep("create", "Person", <<Entry("name", StrV("N"))>>, <<>>, <<"a">>,
                    optional)

TxCreateProperty(optional) ==
    TransactionStep("create", "Property",
                    <<Entry("owner", TplV(<<Ref("a", "id")>>)),
                      Entry("label", TplV(<<Lit("p-"), Ref("a", "id")>>))>>,
                    <<>>, <<"$", "b">>, optional)

TxGetOrCreateCompany(optional) ==
    TransactionStep("get_or_create", "Company", <<Entry("code", StrV("c9"))>>,
                    <<Entry(<<"code", "eq">>, StrV("c9"))>>, <<"c">>, optional)

TxUpdatePerson ==
    TransactionStep("update", "Person",
                    <<Entry("note", TplV(<<Lit("x-"), Ref("c", "name"), Lit("-"),
                                           Ref("c", "code")>>)),
                      Entry("tags", ListV(<<TplV(<<Ref("c", "name")>>), IntV(5)>>)),
                      Entry("meta", ObjV([who |-> TplV(<<Ref("a", None)>>),
                                          plain |-> StrV("plain")]))>>,
                    <<Entry(<<"id", "eq">>, TplV(<<Ref("a", "id")>>))>>, <<>>, FALSE)

TxSteps ==
    {TxCreatePerson(o) : o \in BOOLEAN} \cup {TxCreateProperty(o) : o \in BOOLEAN}
    \cup {TxGetOrCreateCompany(o) : o \in BOOLEAN} \cup {TxUpdatePerson}

RECURSIVE TxStepLists(_)
TxStepLists(n) ==
    IF n = 0 THEN {<<>>}
    ELSE TxStepLists(n - 1)
         \cup {Append(list, step) : list \in {l \in TxStepLists(n - 1) : Len(l) = n - 1},
                                    step \in TxSteps}

Transactions ==
    {Transaction(list, on_error) :
        list \in TxStepLists(MaxTxSteps) \ {<<>>},
        on_error \in {"rollback", "stop", "continue"}}

InitTransaction ==
    /\ query = <<>>
    /\ pc = "transaction"
    /\ errors = <<>>
    /\ normalized = <<>>
    /\ http_status = 0
    /\ iam = <<>>
    /\ plan_steps = <<>>
    /\ final_steps = <<>>
    /\ sorted_steps = <<>>
    /\ idx = 0
    /\ results = <<>>
    /\ inflight = {}
    /\ fetches = <<>>
    /\ exec_error = <<>>
    /\ response = <<>>
    /\ step_counter = 0
    /\ previous_plan = <<>>
    /\ \E t \in Transactions : transaction = <<t>>
    /\ tx_step = 1
    /\ variables = <<>>
    /\ completed_creates = <<>>
    /\ compensations = <<>>
    /\ mutation = <<>>
    /\ posts = <<>>
    /\ mutation_results = <<>>
    /\ tx_result = <<>>

\* execute, `except Exception`: _resolve_refs raised for the step at tx_step
StepRaises ==
    /\ pc = "transaction"
    /\ tx_step <= Len(transaction[1].steps)
    /\ LET step == transaction[1].steps[tx_step]
       IN  \/ ~resolve_dict(step.data, variables).ok
           \/ ~resolve_dict(step.filters, variables).ok
    /\ IF transaction[1].on_error = "rollback"
       THEN /\ \E done \in compensate(completed_creates) : compensations' = done
            /\ tx_result' = <<TransactionResult(FALSE, TRUE)>>
            /\ pc' = "transaction_done"
            /\ UNCHANGED exec_error
       ELSE /\ exec_error' = <<[type |-> "ExecutionError"]>>
            /\ pc' = "transaction_raised"
            /\ UNCHANGED <<compensations, tx_result>>
    /\ UNCHANGED <<planner_vars, mutation, posts, mutation_results, transaction, tx_step,
                   variables, completed_creates, query, errors, normalized,
                   http_status, iam, plan_steps, final_steps, sorted_steps, idx,
                   results, inflight, fetches, response>>

\* execute, one turn of the loop whose references resolve: the step is run, its
\* result appended, and execute returns or goes on to the next step
RunStep ==
    /\ pc = "transaction"
    /\ tx_step <= Len(transaction[1].steps)
    /\ LET step == transaction[1].steps[tx_step]
           on_error == transaction[1].on_error
           resolved_data == resolve_dict(step.data, variables)
           resolved_filters == resolve_dict(step.filters, variables)
       IN  /\ resolved_data.ok
           /\ resolved_filters.ok
           /\ \E r \in step_execute(step, resolved_data.value, resolved_filters.value) :
                 /\ posts' = posts \o r.posts
                 /\ mutation_results' = Append(mutation_results, r.result)
                 /\ variables' = variables_after(step, r.result, variables)
                 /\ IF after_result(step, on_error, r.result) = "return_rollback"
                    THEN /\ \E done \in compensate(completed_creates) :
                               compensations' = done
                         /\ tx_result' = <<TransactionResult(FALSE, TRUE)>>
                         /\ pc' = "transaction_done"
                         /\ UNCHANGED <<tx_step, completed_creates>>
                    ELSE IF after_result(step, on_error, r.result) = "return_stop"
                    THEN /\ tx_result' = <<TransactionResult(FALSE, FALSE)>>
                         /\ pc' = "transaction_done"
                         /\ UNCHANGED <<tx_step, completed_creates, compensations>>
                    ELSE /\ completed_creates' =
                               IF r.result.success
                               THEN completed_creates_after(step, r.result,
                                                            completed_creates)
                               ELSE completed_creates
                         /\ tx_step' = tx_step + 1
                         /\ UNCHANGED <<pc, tx_result, compensations>>
    /\ UNCHANGED <<planner_vars, mutation, transaction, query, errors, normalized,
                   http_status, iam, plan_steps, final_steps, sorted_steps, idx,
                   results, inflight, fetches, exec_error, response>>

\* execute, after the loop: "All steps completed successfully"
ReturnSuccess ==
    /\ pc = "transaction"
    /\ tx_step > Len(transaction[1].steps)
    /\ tx_result' = <<TransactionResult(TRUE, FALSE)>>
    /\ pc' = "transaction_done"
    /\ UNCHANGED <<planner_vars, mutation, posts, mutation_results, transaction, tx_step,
                   variables, completed_creates, compensations, query, errors,
                   normalized, http_status, iam, plan_steps, final_steps,
                   sorted_steps, idx, results, inflight, fetches, exec_error,
                   response>>

NextTransaction ==
    \/ StepRaises
    \/ RunStep
    \/ ReturnSuccess

SpecTransaction == InitTransaction /\ [][NextTransaction]_vars

\* ------------------------------------------------------------------ C1, C2
\* What the specification calls an invalid filter key, stated on the raw key.
BadFilterKey(key, entity) ==
    LET fields_def == GraphEntities[entity].fields
        field_name == IF Len(key) = 1 THEN key[1] ELSE JoinTokens(SubSeq(key, 1, Len(key) - 1))
        op == IF Len(key) = 1 THEN "eq" ELSE key[Len(key)]
    IN  \/ field_name \notin DOMAIN fields_def
        \/ op \notin {"eq", "in", "icontains", "gte", "lte", "isnull"}
        \/ op \notin fields_def[field_name].filters

BadOrderItem(item, entity) ==
    LET fields_def == GraphEntities[entity].fields
        field_name == IF item[1] = "-" THEN JoinTokens(Tail(item)) ELSE JoinTokens(item)
    IN  \/ field_name \notin DOMAIN fields_def
        \/ ~fields_def[field_name].sortable

RelationTarget(entity, name) ==
    LET defs == GraphEntities[entity].relations
    IN  IF \E i \in 1..Len(defs) : defs[i].name = name /\ defs[i].target \in EntityNames
        THEN (CHOOSE d \in Range(defs) : d.name = name).target
        ELSE None

RECURSIVE RawSelectionInvalid(_, _)
\* some field, filter, order item or relation of the raw tree is invalid, at any depth
RawSelectionInvalid(sel, entity) ==
    \/ \E i \in 1..Len(sel.fields) : sel.fields[i] \notin DOMAIN GraphEntities[entity].fields
    \/ \E i \in 1..Len(sel.filters) : BadFilterKey(sel.filters[i].name, entity)
    \/ \E i \in 1..Len(sel.order) : BadOrderItem(sel.order[i], entity)
    \/ \E i \in 1..Len(sel.relations) :
          LET target == RelationTarget(entity, sel.relations[i].name)
          IN  \/ target = None
              \/ RawSelectionInvalid(sel.relations[i].sel, target)

RawQueryInvalid(q) ==
    \/ q.entity \notin EntityNames
    \/ /\ q.entity \in EntityNames
       /\ \/ \E i \in 1..Len(q.filters) : BadFilterKey(q.filters[i].name, q.entity)
          \/ RawSelectionInvalid(q.select, q.entity)

Validated == pc # "start"

\* C1: validate_and_normalize is all-or-nothing. A raw query with an invalid
\* filter key, field, order item or relation at any depth yields a non-empty
\* error list and a null normalized query; a non-null normalized query comes
\* only with an empty error list.
C1_AllOrNothing ==
    Validated =>
        /\ RawQueryInvalid(query) => (Len(errors) > 0 /\ normalized = <<>>)
        /\ normalized # <<>> => Len(errors) = 0

\* C1 witness: a query whose only flaw is a field nested one relation deep was rejected.
C1_Witness ==
    /\ Validated
    /\ query.entity \in EntityNames
    /\ query.filters = <<>>
    /\ ~RawSelectionInvalid(WithRelations(query.select, <<>>), query.entity)
    /\ RawSelectionInvalid(query.select, query.entity)
    /\ Len(errors) > 0
    /\ normalized = <<>>

\* an eq filter (bare `field` or `field__eq`) on the entity's primary key field
HasKeyEqFilter(q) ==
    LET key == GraphEntities[q.entity].keys[1]
    IN  \E i \in 1..Len(q.filters) : q.filters[i].name \in {<<key>>, <<key, "eq">>}

\* C2: for every entity and valid root filter set, is_single is true iff the root
\* filters hold an eq filter on that entity's primary key field.
C2_IsSingleIffKeyEq ==
    (Validated /\ normalized # <<>>) =>
        (normalized[1].is_single <=> HasKeyEqFilter(query))

\* ------------------------------------------------------------------ C3
Planned == plan_steps # <<>> \/ final_steps # <<>>

Executed == sorted_steps # <<>> \/ idx # 0 \/ results # <<>>

Fetched == fetches # <<>> \/ inflight # {}

\* C3: planning and step execution start only after validation returned no
\* errors and the IAM check allowed the query; a query with validation errors or
\* a denied one has no plan step executed and no backend fetch issued.
C3_NoWorkBeforeAdmission ==
    /\ (Planned \/ Executed \/ Fetched) =>
          (Len(errors) = 0 /\ normalized # <<>> /\ iam # <<>> /\ iam[1].allow)
    /\ (Len(errors) > 0 \/ (iam # <<>> /\ ~iam[1].allow)) =>
          (~Planned /\ ~Executed /\ ~Fetched /\ response = <<>>)

\* C3 witness: a valid query that selects a relation was denied and answered 403.
C3_Witness ==
    /\ pc = "denied"
    /\ http_status = 403
    /\ normalized # <<>>
    /\ Len(normalized[1].select.relations) > 0
    /\ ~iam[1].allow
    /\ ~Planned /\ ~Fetched

\* ------------------------------------------------------------------ C4
\* the fetches sent for the root step
RootFetches == {i \in 1..Len(fetches) : fetches[i].step_id = plan_steps[1].id}

RootIsDirect ==
    GraphEntities[query.entity].access.tenant_strategy = "direct"

\* C4: for a root entity with the direct strategy every fetch of the root step
\* carries the client filters first, unchanged and in order, and then each IAM
\* scope as a filter (scope field, op, values), in scope order.
C4_GuardsAfterClientFilters ==
    \A i \in RootFetches :
        RootIsDirect =>
            LET sent == fetches[i].filters
                client == normalized[1].filters
                scopes == iam[1].scopes
            IN  /\ Len(sent) = Len(client) + Len(scopes)
                /\ \A k \in 1..Len(client) : sent[k] = client[k]
                /\ \A k \in 1..Len(scopes) :
                      sent[Len(client) + k] =
                          [field |-> scopes[k].field, op |-> scopes[k].op,
                           value |-> ListV(scopes[k].values)]

\* C4 witness: the root fetch of a direct entity went out with a client filter on
\* the guarded field itself and two scopes behind it.
C4_Witness ==
    /\ RootFetches # {}
    /\ RootIsDirect
    /\ Len(iam[1].scopes) = 2
    /\ Len(normalized[1].filters) = 1
    /\ normalized[1].filters[1].field = iam[1].scopes[1].field
    /\ Len(fetches[1].filters) = 3

\* ------------------------------------------------------------------ C5
\* the step a relation step attaches its rows onto
AttachParent(step) ==
    IF step.attach_to_step_id # None THEN step.attach_to_step_id ELSE step.depends_on

\* the planned steps that attach a masked relation onto a step of the masked entity
MaskedRelationSteps ==
    {s \in Range(plan_steps) :
        /\ s.attach_as # None
        /\ \E p \in Range(plan_steps) :
              /\ p.id = AttachParent(s)
              /\ <<p.entity, s.attach_as>> \in MaskedRelations(iam[1])}

RECURSIVE DependentsClosure(_)
DependentsClosure(S) ==
    LET more == S \cup {t \in Range(plan_steps) : t.depends_on \in {s.id : s \in S}}
    IN  IF more = S THEN S ELSE DependentsClosure(more)

\* a masked relation's subtree: its step, its link step, and all their dependents
MaskedSubtree ==
    DependentsClosure(
        MaskedRelationSteps
        \cup {l \in Range(plan_steps) :
                 \E s \in MaskedRelationSteps : s.link_through_step_id = l.id})

RootRows ==
    IF response = <<>> THEN {}
    ELSE IF response[1].kind = "list" THEN Range(response[1].items)
    ELSE IF response[1].kind = "single" THEN {response[1].data}
    ELSE {}

GuardPassDone == pc \in {"guarded", "executing", "failed", "done"}

\* C5: after the relation-mask pass the plan handed to the executor holds no step
\* of a masked relation's subtree, no fetch is issued for such a step, and the
\* masked relation is absent from the assembled rows.
C5_MaskedSubtreesAbsent ==
    GuardPassDone =>
        /\ \A s \in MaskedSubtree :
              /\ \A i \in 1..Len(final_steps) : final_steps[i].id # s.id
              /\ \A i \in 1..Len(fetches) : fetches[i].step_id # s.id
        /\ \A row \in RootRows :
              \A pair \in MaskedRelations(iam[1]) :
                  pair[1] = query.entity => pair[2] \notin DOMAIN row

\* ------------------------------------------------------------------ C6
ResultNames == {results[k].name : k \in 1..Len(results)}

\* C6: at most one fetch is in flight; a step with depends_on = p is fetched or
\* short-circuited only after p's result was stored; every step of the list is
\* processed exactly once.
C6_SequentialInDependencyOrder ==
    /\ Cardinality(inflight) <= 1
    /\ \A request \in inflight :
          LET step == StepById(final_steps, request.step_id)[1]
          IN  step.depends_on # None => step.depends_on \in ResultNames
    /\ \A k \in 1..Len(results) :
          LET step == StepById(final_steps, results[k].name)[1]
          IN  step.depends_on # None =>
                  \E j \in 1..(k - 1) : results[j].name = step.depends_on
    /\ \A j, k \in 1..Len(results) : j # k => results[j].name # results[k].name
    /\ pc = "done" => ResultNames = {final_steps[i].id : i \in 1..Len(final_steps)}

\* ------------------------------------------------------------------ C7
\* no row of `items` has a non-null value in `field`
NoKeyValues(items, field) ==
    \A i \in 1..Len(items) : field \notin DOMAIN items[i] \/ items[i][field] = NullV

\* the stored result of the step `step` depends on, if it has been stored
StoredParent(step) ==
    IF step.depends_on = None THEN <<>> ELSE Lookup(results, step.depends_on)

EmptyParent(step) ==
    /\ StoredParent(step) # <<>>
    /\ NoKeyValues(StoredParent(step)[1].items, step.parent_key_field)

\* C7: a dependent step whose parent's stored result has zero rows, or no row
\* with a non-null parent_key_field, gets items = [] and total = 0 without a
\* network call; its own result being empty, the same holds for its dependents.
C7_EmptyInShortCircuit ==
    /\ \A request \in inflight :
          ~EmptyParent(StepById(final_steps, request.step_id)[1])
    /\ \A k \in 1..Len(results) :
          LET step == StepById(final_steps, results[k].name)[1]
          IN  EmptyParent(step) =>
                  /\ results[k].items = <<>>
                  /\ results[k].total = 0
                  /\ \A i \in 1..Len(fetches) : fetches[i].step_id # step.id

\* C7 witness: the root returned no rows and a relation and the relation nested
\* under it were both answered without a fetch.
C7_Witness ==
    /\ pc = "done"
    /\ Len(fetches) = 1
    /\ Len(results) >= 3
    /\ results[1].items = <<>>
    /\ \E k \in 2..Len(results) :
          LET step == StepById(final_steps, results[k].name)[1]
          IN  /\ step.depends_on # None
              /\ step.depends_on # results[1].name
              /\ EmptyParent(step)

\* ------------------------------------------------------------------ C8
FetchFailed == exec_error # <<>> /\ exec_error[1].cause = "ServiceError"

\* C8: when the fetch of a step fails, execute raises an ExecutionError with that
\* step's id, nothing is returned or assembled, no later step is fetched (the
\* failed fetch is the last one sent), and no step is ever fetched twice.
C8_FailFast ==
    /\ \A i, j \in 1..Len(fetches) : i # j => fetches[i].step_id # fetches[j].step_id
    /\ FetchFailed =>
          /\ exec_error[1].type = "ExecutionError"
          /\ pc = "failed"
          /\ exec_error[1].step_id = fetches[Len(fetches)].step_id
          /\ exec_error[1].step_id = sorted_steps[idx].id
          /\ inflight = {}
          /\ response = <<>>
          /\ http_status # 200

\* C8 witness: a later step's fetch failed after earlier results were stored, with
\* steps still left in the sorted order.
C8_Witness ==
    /\ FetchFailed
    /\ pc = "failed"
    /\ Len(results) >= 1
    /\ idx < Len(sorted_steps)
    /\ response = <<>>

\* ------------------------------------------------------------------ C9
\* C9: a backend HTTP failure reaches the caller of the executor as a ServiceError
\* with the service and the status code, and the boundary answers 502.
C9_ServiceErrorIs502 ==
    FetchFailed =>
        /\ exec_error[1].type = "ServiceError"
        /\ exec_error[1].service # None
        /\ exec_error[1].status_code # <<>>
        /\ http_status = 502

\* ------------------------------------------------------------------ C10
RelationKind(entity, name) ==
    (CHOOSE d \in Range(GraphEntities[entity].relations) : d.name = name).kind

RECURSIVE ExpectedSteps(_, _)
\* the <<entity, attach_as>> pairs of the steps a relation list calls for, in
\* order: a ref relation one step, a provider relation a link step and a target
\* step, each followed by the steps of the relations nested under it
ExpectedSteps(relations, entity) ==
    IF Len(relations) = 0 THEN <<>>
    ELSE LET entry == Head(relations)
             target == RelationTarget(entity, entry.name)
             own == IF RelationKind(entity, entry.name) = "provider"
                    THEN <<<<"Relationship", None>>, <<target, entry.name>>>>
                    ELSE <<<<target, entry.name>>>>
         IN  own \o ExpectedSteps(entry.sel.relations, target)
             \o ExpectedSteps(Tail(relations), entity)

RECURSIVE CountKind(_, _, _)
\* relation nodes of the given kind in a selection tree, at any depth
CountKind(relations, entity, kind) ==
    IF Len(relations) = 0 THEN 0
    ELSE LET entry == Head(relations)
         IN  (IF RelationKind(entity, entry.name) = kind THEN 1 ELSE 0)
             + CountKind(entry.sel.relations, RelationTarget(entity, entry.name), kind)
             + CountKind(Tail(relations), entity, kind)

\* C10: plan() emits 1 + R + 2P steps: the root step, one step per ref relation,
\* a link step followed by a target step per provider relation, nested relations
\* planned against the target entity's relation definitions.
C10_PlanStepCount ==
    plan_steps # <<>> =>
        LET sel == normalized[1].select
            R == CountKind(sel.relations, query.entity, "ref")
            P == CountKind(sel.relations, query.entity, "provider")
        IN  /\ Len(plan_steps) = 1 + R + 2 * P
            /\ [i \in 1..Len(plan_steps) |->
                   <<plan_steps[i].entity, plan_steps[i].attach_as>>]
               = <<<<query.entity, None>>>> \o ExpectedSteps(sel.relations, query.entity)

\* C10 witness: a ref relation with a provider relation nested under it was
\* planned as four steps.
C10_Witness ==
    /\ plan_steps # <<>>
    /\ Len(plan_steps) = 4
    /\ CountKind(normalized[1].select.relations, query.entity, "ref") = 1
    /\ Len(normalized[1].select.relations) = 1
    /\ plan_steps[3].entity = "Relationship"
    /\ plan_steps[4].depends_on = plan_steps[3].id

\* ------------------------------------------------------------------ C11
KeysOf(entity) == GraphEntities[entity].keys

\* C11: every planned step has all of its entity's primary key fields and, when
\* set, its child_match_field in select_fields.
C11_OwnFieldsSelected ==
    \A i \in 1..Len(plan_steps) :
        LET step == plan_steps[i]
        IN  /\ \A k \in 1..Len(KeysOf(step.entity)) :
                  Contains(step.select_fields, KeysOf(step.entity)[k])
            /\ step.child_match_field # None =>
                  Contains(step.select_fields, step.child_match_field)

\* ------------------------------------------------------------------ C12
\* C12: for every non-root step the field the executor reads from the rows of
\* the step it depends on (parent_key_field) is in that step's select_fields.
C12_JoinSourceSelected ==
    \A i \in 1..Len(plan_steps) :
        LET step == plan_steps[i]
        IN  step.depends_on # None =>
                /\ StepById(plan_steps, step.depends_on) # <<>>
                /\ Contains(StepById(plan_steps, step.depends_on)[1].select_fields,
                            step.parent_key_field)

\* ------------------------------------------------------------------ C13
\* positions of the target steps of provider relations in the plan
TargetSteps == {i \in 1..Len(plan_steps) : plan_steps[i].attach_to_step_id # None}

\* the schema definition of the relation a target step attaches
TargetRelationDef(step) ==
    LET parent == StepById(plan_steps, step.attach_to_step_id)[1]
    IN  CHOOSE d \in Range(GraphEntities[parent.entity].relations) :
            d.name = step.attach_as

TargetProvider(step) == GraphProviders[TargetRelationDef(step).provider]

\* C13: with direction "out" the link step matches the parent's key against the
\* provider's object_field (link child_match_field = target link_field =
\* object_field) and the target ids come from subject_field (target
\* parent_key_field); with direction "in" the two fields are swapped.
C13_DirectionMapping ==
    \A i \in TargetSteps :
        LET target == plan_steps[i]
            link == StepById(plan_steps, target.depends_on)[1]
            provider == TargetProvider(target)
        IN  IF TargetRelationDef(target).direction = "out"
            THEN /\ link.child_match_field = provider.object_field
                 /\ target.link_field = provider.object_field
                 /\ target.parent_key_field = provider.subject_field
            ELSE /\ TargetRelationDef(target).direction = "in"
                 /\ link.child_match_field = provider.subject_field
                 /\ target.link_field = provider.subject_field
                 /\ target.parent_key_field = provider.object_field

\* C13 witness: one plan holds a provider relation of each direction.
C13_Witness ==
    /\ \E i \in TargetSteps : TargetRelationDef(plan_steps[i]).direction = "out"
    /\ \E i \in TargetSteps : TargetRelationDef(plan_steps[i]).direction = "in"

\* ------------------------------------------------------------------ C14
\* the type / status equality filters a provider relation definition calls for
ExpectedLinkFilters(relation_def, provider) ==
    (IF relation_def.type # ""
     THEN <<[field |-> provider.type_field, op |-> "eq", value |-> StrV(relation_def.type)]>>
     ELSE <<>>)
    \o
    (IF relation_def.status # ""
     THEN <<[field |-> provider.status_field, op |-> "eq",
             value |-> StrV(relation_def.status)]>>
     ELSE <<>>)

\* C14: the target step of a provider relation depends on and links through the
\* link step emitted just before it, attaches to the original parent step under
\* the relation name; the link step depends on the original parent, has no
\* attach_as, selects only the two linking fields and carries only the
\* relation's type / status equality filters. Every provider relation node of
\* the selection has such a pair.
C14_TwoHopWiring ==
    plan_steps # <<>> =>
        /\ Cardinality(TargetSteps)
              = CountKind(normalized[1].select.relations, query.entity, "provider")
        /\ \A i \in TargetSteps :
              LET target == plan_steps[i]
                  link == plan_steps[i - 1]
                  parent == StepById(plan_steps, target.attach_to_step_id)[1]
                  relation_def == TargetRelationDef(target)
                  provider == TargetProvider(target)
              IN  /\ target.depends_on = link.id
                  /\ target.link_through_step_id = link.id
                  /\ target.attach_to_step_id = link.depends_on
                  /\ target.attach_to_step_id # link.id
                  /\ \E d \in Range(GraphEntities[parent.entity].relations) :
                        /\ d.name = target.attach_as
                        /\ d.kind = "provider"
                        /\ d.target = target.entity
                  /\ link.attach_as = None
                  /\ link.entity = provider.entity
                  /\ Len(link.select_fields) = 2
                  /\ Range(link.select_fields)
                        = {provider.subject_field, provider.object_field}
                  /\ link.filters = ExpectedLinkFilters(relation_def, provider)

\* C14 witness: a provider relation nested under a provider relation, so the
\* second pair attaches to the first pair's target step and not to a link step.
C14_Witness ==
    /\ Cardinality(TargetSteps) = 2
    /\ \E i \in TargetSteps :
          /\ plan_steps[i].attach_to_step_id # plan_steps[1].id
          /\ StepById(plan_steps, plan_steps[i].attach_to_step_id)[1].attach_as # None

\* ------------------------------------------------------------------ C15
\* what ties a step into the plan
Wiring(step) == <<step.id, step.entity, step.depends_on, step.attach_to_step_id, step.link_through_step_id, step.attach_as>>

\* the step named id appears before position i
NamesEarlier(steps, id, i) == \E j \in 1..(i - 1) : steps[j].id = id

\* C15: in every list plan() returns the step ids are pairwise distinct, exactly
\* one step, the first, has depends_on null, every other step's depends_on (and
\* attach_to_step_id when set) names a step earlier in the list; and a second
\* call of plan() on the same query returns as many steps with the same wiring.
C15_PlanWellFormed ==
    /\ step_counter > 0 =>
          /\ Len(plan_steps) >= 1
          /\ \A i, j \in 1..Len(plan_steps) :
                plan_steps[i].id = plan_steps[j].id => i = j
          /\ \A i \in 1..Len(plan_steps) : (plan_steps[i].depends_on = None) <=> (i = 1)
          /\ \A i \in 2..Len(plan_steps) :
                /\ NamesEarlier(plan_steps, plan_steps[i].depends_on, i)
                /\ plan_steps[i].attach_to_step_id # None =>
                      NamesEarlier(plan_steps, plan_steps[i].attach_to_step_id, i)
    /\ previous_plan # <<>> =>
          /\ Len(plan_steps) = Len(previous_plan[1])
          /\ \A i \in 1..Len(plan_steps) :
                Wiring(plan_steps[i]) = Wiring(previous_plan[1][i])

\* C15 witness: plan() was called twice on a query with a provider relation and
\* a relation below it.
C15_Witness ==
    /\ previous_plan # <<>>
    /\ Len(plan_steps) >= 4
    /\ \E i \in 1..Len(plan_steps) : plan_steps[i].attach_to_step_id # None

\* ------------------------------------------------------------------ C16
\* items of the result of the i-th step handed to the assembler
ItemsOfStep(i) == Lookup(results, final_steps[i].id)[1].items

LinkRow(subject_id, object_id) == [subject_id |-> IntV(subject_id), object_id |-> IntV(object_id)]

PropertyX == [id |-> IntV(10), name |-> StrV("X")]

\* the list query Person -> owned (direction "out") was assembled from parent
\* rows [{id:1}], the one link row given and target rows [{id:10, name:"X"}]
OwnedExample(link_row) ==
    /\ pc = "done"
    /\ query.entity = "Person"
    /\ ~normalized[1].is_single
    /\ Len(final_steps) = 3
    /\ final_steps[3].attach_as = "owned"
    /\ TargetRelationDef(final_steps[3]).direction = "out"
    /\ ItemsOfStep(1) = <<[id |-> IntV(1)]>>
    /\ ItemsOfStep(2) = <<link_row>>
    /\ ItemsOfStep(3) = <<PropertyX>>

\* the parent rows of the response are the one row {id:1, owned: children}
OwnedIs(children) ==
    /\ response[1].kind = "list"
    /\ response[1].items = <<[id |-> IntV(1), owned |-> ListV(children)]>>

\* C16 as stated: parent rows [{id:1}], link rows [{subject_id:1, object_id:10}],
\* target rows [{id:10,name:"X"}] and direction "out" give the parent row
\* {id:1, rel:[{id:10,name:"X"}]}.
C16_AsStated == OwnedExample(LinkRow(1, 10)) => OwnedIs(<<ObjV(PropertyX)>>)

\* C16 amended: with direction "out" the parent id is matched against
\* object_field and the target id against subject_field, so the link row
\* {subject_id:10, object_id:1} gives {id:1, rel:[{id:10,name:"X"}]}, and the
\* link row {subject_id:1, object_id:10} gives {id:1, rel:[]}.
C16_TwoHopExample ==
    /\ OwnedExample(LinkRow(10, 1)) => OwnedIs(<<ObjV(PropertyX)>>)
    /\ OwnedExample(LinkRow(1, 10)) => OwnedIs(<<>>)

C16_Witness == OwnedExample(LinkRow(10, 1)) /\ OwnedIs(<<ObjV(PropertyX)>>)

\* ------------------------------------------------------------------ C17
\* the rows a value holds: the object itself, or the objects of a list
ValueRows(val) ==
    IF val.t = "obj" THEN {val.v}
    ELSE IF val.t = "list" THEN {val.v[i].v : i \in 1..Len(val.v)}
    ELSE {}

RECURSIVE OutputRowsOf(_)
\* the rows of the response at the place of a step: the root rows, or what the
\* rows at the place of its attach parent hold under attach_as
OutputRowsOf(step) ==
    IF step.depends_on = None THEN RootRows
    ELSE IF step.attach_as = None \/ StepById(final_steps, AttachParent(step)) = <<>> THEN {}
    ELSE UNION {IF step.attach_as \in DOMAIN o THEN ValueRows(o[step.attach_as]) ELSE {} :
                   o \in OutputRowsOf(StepById(final_steps, AttachParent(step))[1])}

RECURSIVE RowsBelow(_)
\* a row and every row nested in it, at any depth
RowsBelow(row) ==
    {row} \cup UNION {UNION {RowsBelow(r) : r \in ValueRows(row[f])} : f \in DOMAIN row}

\* every row of the response, at any depth
OutputRows == UNION {RowsBelow(r) : r \in RootRows}

\* a row without the relations attached to it
Bare(row, step) == [f \in DOMAIN row \cap Range(step.select_fields) |-> row[f]]

TwoHopSteps == {i \in 1..Len(final_steps) : final_steps[i].attach_to_step_id # None}

LinkSteps == {i \in 1..Len(final_steps) : final_steps[i].depends_on # None /\ final_steps[i].attach_as = None}

\* C17: the rows of a two-hop target step are attached onto the rows of the step
\* attach_to_step_id names (when the list holds it), under attach_as, and not
\* onto the rows of the link step; no row of a link step is anywhere in the
\* assembled output.
C17_AttachedToOriginalParent ==
    pc = "done" =>
        /\ \A i \in TwoHopSteps :
              LET target == final_steps[i]
                  parent == StepById(final_steps, target.attach_to_step_id)[1]
              IN  StepById(final_steps, target.attach_to_step_id) # <<>> =>
                  /\ parent.id # target.depends_on
                  /\ \A o \in OutputRowsOf(parent) :
                        /\ target.attach_as \in DOMAIN o
                        /\ \A c \in ValueRows(o[target.attach_as]) :
                              Bare(c, target) \in Range(ItemsOfStep(i))
        /\ \A l \in LinkSteps :
              \A o \in OutputRows :
                  /\ ~(Range(final_steps[l].select_fields) \subseteq DOMAIN o)
                  /\ \A t \in TwoHopSteps :
                        final_steps[t].depends_on = final_steps[l].id =>
                            final_steps[t].attach_as \notin DOMAIN o
                            \/ \E p \in 1..Len(final_steps) :
                                  /\ final_steps[p].id = final_steps[t].attach_to_step_id
                                  /\ o \in OutputRowsOf(final_steps[p])

\* C17 witness: a two-hop step below a single-hop step was assembled, and a
\* nested parent row holds a target row while the link result was not empty.
C17_Witness ==
    /\ pc = "done"
    /\ \E i \in TwoHopSteps :
          LET target == final_steps[i]
              parent == StepById(final_steps, target.attach_to_step_id)[1]
          IN  /\ parent.depends_on # None
              /\ Len(Lookup(results, target.depends_on)[1].items) > 0
              /\ \E o \in OutputRowsOf(parent) : ValueRows(o[target.attach_as]) # {}

\* ------------------------------------------------------------------ C18
SingleHopSteps == {i \in 1..Len(final_steps) : final_steps[i].depends_on # None /\ final_steps[i].attach_as # None /\ final_steps[i].attach_to_step_id = None}

\* the rows of step i whose child_match_field equals the parent row's
\* parent_key_field, in result order
MatchingChildren(i, parent_row) ==
    LET step == final_steps[i]
        Matches(child) ==
            RowGet(child, step.child_match_field) = RowGet(parent_row, step.parent_key_field)
    IN  SelectSeq(ItemsOfStep(i), Matches)

\* the value a parent row holds under attach_as is what the claim describes
HoldsChildren(i, parent_row) ==
    LET step == final_steps[i]
        expected == MatchingChildren(i, parent_row)
        held == parent_row[step.attach_as]
    IN  IF step.cardinality = "one"
        THEN IF Len(expected) = 0 THEN held = NullV
             ELSE held.t = "obj" /\ Bare(held.v, step) = expected[1]
        ELSE /\ held.t = "list"
             /\ Len(held.v) = Len(expected)
             /\ \A k \in 1..Len(expected) : Bare(held.v[k].v, step) = expected[k]

\* C18: after assemble every row of the parent of a single-hop step, wherever it
\* sits in the output, carries attach_as: for cardinality one the first child row
\* whose child_match_field equals the row's parent_key_field or null, for
\* cardinality many the list of all such rows in result order; so children
\* attached at deeper levels are inside the child rows reached from the root.
C18_SingleHopAttach ==
    pc = "done" =>
        \A i \in SingleHopSteps :
            StepById(final_steps, final_steps[i].depends_on) # <<>> =>
                \A o \in OutputRowsOf(StepById(final_steps, final_steps[i].depends_on)[1]) :
                    /\ final_steps[i].attach_as \in DOMAIN o
                    /\ HoldsChildren(i, o)

\* C18 witness: a cardinality-one relation with two matching children, and below
\* the child a cardinality-many relation holding two rows.
C18_Witness ==
    /\ pc = "done"
    /\ \E i, j \in SingleHopSteps :
          /\ final_steps[i].cardinality = "one"
          /\ final_steps[j].cardinality = "many"
          /\ final_steps[j].depends_on = final_steps[i].id
          /\ \E o \in RootRows :
                /\ Len(MatchingChildren(i, o)) = 2
                /\ MatchingChildren(i, o)[1] # MatchingChildren(i, o)[2]
          /\ \E o \in OutputRowsOf(final_steps[i]) : Len(MatchingChildren(j, o)) = 2

\* ------------------------------------------------------------------ C19
\* the root result has these page data and was assembled into a list response
PageCase(total, limit, offset, n) ==
    /\ pc = "done"
    /\ response[1].kind = "list"
    /\ results[1].total = total
    /\ results[1].limit = limit
    /\ results[1].offset = offset
    /\ Len(response[1].items) = n

\* C19: for a list query has_next of the response is (limit is set and
\* total > offset + number of returned items); total=25, limit=10, offset=10
\* with 10 items gives true, offset=20 with 5 items gives false, and without a
\* limit it is false.
C19_HasNext ==
    (pc = "done" /\ response[1].kind = "list") =>
        /\ response[1].pagination.has_next
              = (/\ results[1].limit # <<>>
                 /\ results[1].total > results[1].offset + Len(response[1].items))
        /\ PageCase(25, <<10>>, 10, 10) => response[1].pagination.has_next = TRUE
        /\ PageCase(25, <<10>>, 20, 5) => response[1].pagination.has_next = FALSE
        /\ results[1].limit = <<>> => response[1].pagination.has_next = FALSE

C19_Witness == PageCase(25, <<10>>, 10, 10) /\ response[1].pagination.has_next

\* ------------------------------------------------------------------ C20
\* the filters of the EntityMutation the path hands to MutationExecutor.execute
DispatchedFilters ==
    IF mutation[1].path = "rest"
    THEN (IF mutation[1].operation = "create" THEN <<>> ELSE mutation[1].body.filters)
    ELSE from_dict_filters(mutation[1].body)

FilterlessBulkMutation ==
    /\ mutation # <<>>
    /\ mutation[1].operation \in {"update", "rewrite", "delete"}
    /\ Len(DispatchedFilters) = 0

\* C20: an update, rewrite or delete whose filters are empty is rejected before
\* dispatch on every path: no request is posted to a service for it and its
\* result reports failure.
C20_FilterlessRejectedBeforeDispatch ==
    (FilterlessBulkMutation /\ pc \in {"mutation_done", "rejected"}) =>
        /\ posts = <<>>
        /\ \A i \in 1..Len(mutation_results) : ~mutation_results[i].success

\* ------------------------------------------------------------------ C27
\* the link row joins the parent row and the target row of two-hop step i
LinkJoins(i, link_row, parent_row, child) ==
    LET target == final_steps[i]
        link == StepById(final_steps, target.link_through_step_id)[1]
    IN  /\ RowGet(link_row, target.link_field) # NullV
        /\ RowGet(link_row, target.parent_key_field) # NullV
        /\ RowGet(parent_row, link.parent_key_field) # NullV
        /\ RowGet(child, target.child_match_field) # NullV
        /\ StrOf(RowGet(link_row, target.link_field))
              = StrOf(RowGet(parent_row, link.parent_key_field))
        /\ StrOf(RowGet(link_row, target.parent_key_field))
              = StrOf(RowGet(child, target.child_match_field))

\* C27: for every link row that joins a parent row to a target row, both in
\* their step results, the target row is under the parent's relation in the
\* output; so a target linked to several parents is in each parent's list.
C27_SharedTargetsAttached ==
    pc = "done" =>
        \A i \in TwoHopSteps :
            LET target == final_steps[i]
                parent == StepById(final_steps, target.attach_to_step_id)[1]
            IN  target.cardinality = "many" =>
                \A o \in OutputRowsOf(parent) :
                    \A k \in 1..Len(Lookup(results, target.link_through_step_id)[1].items) :
                        \A c \in Range(ItemsOfStep(i)) :
                            LinkJoins(i, Lookup(results,
                                                target.link_through_step_id)[1].items[k],
                                      o, c)
                            => \E held \in ValueRows(o[target.attach_as]) :
                                  Bare(held, target) = c

\* ------------------------------------------------------------------ C28
\* the distinct non-null values the rows hold in field
KeyValues(items, field) ==
    {RowGet(items[i], field) : i \in 1..Len(items)} \ {NullV}

\* the request carries an IN filter on field whose values are exactly `values`
CarriesIn(request, field, values) ==
    \E i \in 1..Len(request.filters) :
        /\ request.filters[i].field = field
        /\ request.filters[i].op = "in"
        /\ request.filters[i].value.t = "list"
        /\ Range(request.filters[i].value.v) = values
        /\ Len(request.filters[i].value.v) = Cardinality(values)

\* C28: every fetch issued for a step with depends_on and child_match_field
\* carries an IN filter on child_match_field whose values are exactly the
\* distinct non-null parent_key_field values of the rows of its parent step's
\* result, also when the mask passes removed steps from the plan.
C28_DependentFetchRestricted ==
    \A k \in 1..Len(fetches) :
        LET step == StepById(final_steps, fetches[k].step_id)[1]
        IN  (step.depends_on # None /\ step.child_match_field # None) =>
                /\ Lookup(results, step.depends_on) # <<>>
                /\ CarriesIn(fetches[k], step.child_match_field,
                             KeyValues(Lookup(results, step.depends_on)[1].items,
                                       step.parent_key_field))

\* ------------------------------------------------------------------ transactions: claims
RECURSIVE RefsOf(_)
\* the references a value holds, at any nesting
RefsOf(data) ==
    IF data.t = "tpl" THEN {data.v[i] : i \in {j \in 1..Len(data.v) : data.v[j].kind = "ref"}}
    ELSE IF data.t = "obj" THEN UNION {RefsOf(data.v[f]) : f \in DOMAIN data.v}
    ELSE IF data.t = "list" THEN UNION {RefsOf(data.v[i]) : i \in 1..Len(data.v)}
    ELSE {}

\* the references of a step's data and filters
StepRefs(step) ==
    UNION ({RefsOf(step.data[i].value) : i \in 1..Len(step.data)}
           \cup {RefsOf(step.filters[i].value) : i \in 1..Len(step.filters)})

\* the reference names no bound variable, or a field the bound value does not have
Dangling(ref, bound) ==
    \/ \A i \in 1..Len(bound) : bound[i].name # ref.var
    \/ /\ ref.field # None
       /\ \E i \in 1..Len(bound) :
             /\ bound[i].name = ref.var
             /\ ~(bound[i].value.t = "obj" /\ ref.field \in DOMAIN bound[i].value.v)

\* execute has ended, by a return or by an exception
TxEnded == pc \in {"transaction_done", "transaction_raised"}

\* execute has ended at a step holding a dangling reference
EndedOnDanglingRef ==
    /\ TxEnded
    /\ tx_step \in 1..Len(transaction[1].steps)
    /\ \E ref \in StepRefs(transaction[1].steps[tx_step]) : Dangling(ref, variables)

\* C24: a step whose data or filters hold a reference to an unbound variable, or
\* to a field the bound object lacks, is not dispatched, and execute returns a
\* result with success = false instead of raising, whatever on_error is and
\* whether or not the step is optional.
C24_DanglingRefReturnsFailure ==
    EndedOnDanglingRef =>
        /\ pc = "transaction_done"
        /\ tx_result # <<>>
        /\ ~tx_result[1].success
        /\ Len(posts) < tx_step

\* the value a reference stands for: the bound value, or its field
BoundValue(ref, bound) ==
    LET value == CHOOSE e \in Range(bound) : e.name = ref.var
    IN  IF ref.field = None THEN value.value ELSE value.value.v[ref.field]

RECURSIVE Joined(_, _, _)
\* the string an embedding string becomes: each reference replaced by the string
\* form of its value; null_as_text says whether a null value leaves the
\* reference as written
Joined(parts, bound, null_as_text) ==
    IF Len(parts) = 0 THEN ""
    ELSE (IF Head(parts).kind = "lit" THEN Head(parts).text
          ELSE IF null_as_text /\ BoundValue(Head(parts), bound) = NullV
          THEN Head(parts).text
          ELSE PyStr(BoundValue(Head(parts), bound)))
         \o Joined(Tail(parts), bound, null_as_text)

RECURSIVE Resolved(_, _, _)
\* what a value of a step is sent as
Resolved(data, bound, null_as_text) ==
    IF data.t = "tpl"
    THEN (IF Len(data.v) = 1 /\ data.v[1].kind = "ref" THEN BoundValue(data.v[1], bound)
          ELSE StrV(Joined(data.v, bound, null_as_text)))
    ELSE IF data.t = "obj"
    THEN ObjV([f \in DOMAIN data.v |-> Resolved(data.v[f], bound, null_as_text)])
    ELSE IF data.t = "list"
    THEN ListV([i \in 1..Len(data.v) |-> Resolved(data.v[i], bound, null_as_text)])
    ELSE data

\* the step at tx_step is dispatched in this transition with its data and filter
\* values resolved against the variables bound so far
DispatchedResolved(null_as_text) ==
    (pc = "transaction" /\ Len(posts') = Len(posts) + 1) =>
        LET step == transaction[1].steps[tx_step]
            post == posts'[Len(posts')]
        IN  /\ Len(post.data) = Len(step.data)
            /\ \A i \in 1..Len(step.data) :
                  /\ post.data[i].name = step.data[i].name
                  /\ post.data[i].value = Resolved(step.data[i].value, variables,
                                                   null_as_text)
            /\ step.operation # "get_or_create" =>
                  /\ Len(post.filters) = Len(step.filters)
                  /\ \A i \in 1..Len(step.filters) :
                        post.filters[i].value = Resolved(step.filters[i].value,
                                                         variables, null_as_text)

\* a step that succeeds with data binds it under its alias, replacing what an
\* earlier step bound there; nothing else changes variables
BoundByLatest ==
    (pc = "transaction" /\ Len(mutation_results') = Len(mutation_results) + 1) =>
        LET step == transaction[1].steps[tx_step]
            result == mutation_results'[Len(mutation_results')]
        IN  IF result.success /\ Len(step.alias) > 0 /\ DataTruthy(result.data)
            THEN /\ \E i \in 1..Len(variables') :
                       /\ variables'[i] = Entry(step.alias[Len(step.alias)], result.data)
                       /\ \A j \in 1..Len(variables') :
                             variables'[j].name = variables'[i].name => j = i
                 /\ \A e \in Range(variables) :
                       e.name # step.alias[Len(step.alias)] => e \in Range(variables')
            ELSE variables' = variables

\* C25 as stated: every string of a dispatched step's data and filters that is
\* exactly a reference is sent as the value bound by the latest successful step
\* under that alias, with its type; a reference inside a longer string is
\* replaced by the string form of its value; anything else is sent unchanged.
C25_AsStated == [][DispatchedResolved(FALSE) /\ BoundByLatest]_vars

\* C25: as stated, except that a reference inside a longer string whose value is
\* null stays in the string as written.
C25_ReferencesResolved == [][DispatchedResolved(TRUE) /\ BoundByLatest]_vars

\* an update is sent whose filter holds the typed id, whose note holds a null
\* reference as written next to a substituted one, whose list holds the typed
\* null and whose nested object holds the whole bound object
C25_Witness ==
    \E k \in 1..Len(posts) :
        /\ posts[k].operation = "update"
        /\ posts[k].filters[1].value = IntV(7)
        /\ posts[k].data[1].value = StrV("x-$c.name-c9")
        /\ posts[k].data[2].value = ListV(<<NullV, IntV(5)>>)
        /\ posts[k].data[3].value = ObjV([who |-> ObjV([id |-> IntV(7)]),
                                          plain |-> StrV("plain")])

\* step i of the transaction failed: its result is a failure, or execute ended on
\* its dangling reference
StepFailed(i) ==
    \/ i <= Len(mutation_results) /\ ~mutation_results[i].success
    \/ i = Len(mutation_results) + 1 /\ i = tx_step /\ EndedOnDanglingRef

\* the steps that failed and are not optional
NonOptionalFailures ==
    {i \in 1..Len(transaction[1].steps) :
        StepFailed(i) /\ ~transaction[1].steps[i].optional}

FirstFailure == CHOOSE i \in NonOptionalFailures : \A j \in NonOptionalFailures : i <= j

\* the steps before step n of the given operations that succeeded with a record
CreatedBefore(n, operations) ==
    {i \in 1..(n - 1) :
        /\ i <= Len(mutation_results)
        /\ transaction[1].steps[i].operation \in operations
        /\ mutation_results[i].success
        /\ mutation_results[i].data.t = "obj"}

RECURSIVE Descending(_)
\* a set of step numbers, the latest first
Descending(set) ==
    IF set = {} THEN <<>>
    ELSE LET last == CHOOSE i \in set : \A j \in set : j <= i
         IN  <<last>> \o Descending(set \ {last})

\* the compensations are one delete for each of the given steps, in that order,
\* on the step's entity and, where the record has an id, for that id
CompensatedInOrder(order) ==
    /\ Len(compensations) = Len(order)
    /\ \A k \in 1..Len(order) :
          LET step == transaction[1].steps[order[k]]
              record == mutation_results[order[k]].data.v
          IN  /\ compensations[k].entity = step.entity
              /\ "id" \in DOMAIN record => compensations[k].value = record["id"]

\* C21: under on_error = "rollback", when a step that is not optional fails,
\* one compensation delete is issued for every record an earlier successful
\* create step created, latest first, no later step runs, and the result is
\* success = false, rolled_back = true with the failed result last in results.
C21_RollbackCompensatesInReverse ==
    (TxEnded /\ transaction[1].on_error = "rollback" /\ NonOptionalFailures # {}) =>
        /\ pc = "transaction_done"
        /\ tx_result = <<TransactionResult(FALSE, TRUE)>>
        /\ Len(mutation_results) = FirstFailure
        /\ ~mutation_results[FirstFailure].success
        /\ Len(posts) <= FirstFailure
        /\ CompensatedInOrder(Descending(CreatedBefore(FirstFailure, {"create"})))

\* results holds one result for every step up to the first failure, the failed
\* result last unless the step failed before it was dispatched
ResultsUpToFailure ==
    /\ Len(mutation_results) \in {FirstFailure - 1, FirstFailure}
    /\ Len(mutation_results) = FirstFailure - 1 => EndedOnDanglingRef
    /\ Len(posts) <= FirstFailure

\* C22: under on_error = "stop", when a step that is not optional fails, no
\* compensation delete is issued, no later step runs, and the result is
\* success = false, rolled_back = false with the results of the steps attempted.
C22_StopHaltsWithoutCompensation ==
    (TxEnded /\ transaction[1].on_error = "stop" /\ NonOptionalFailures # {}) =>
        /\ pc = "transaction_done"
        /\ tx_result = <<TransactionResult(FALSE, FALSE)>>
        /\ compensations = <<>>
        /\ ResultsUpToFailure

\* step i failed and the transaction is to go on past it: on_error is
\* "continue", or the step is optional
PassedOver(i) ==
    /\ StepFailed(i)
    /\ transaction[1].on_error = "continue" \/ transaction[1].steps[i].optional

\* C23: under on_error = "continue", or when the failing step is optional
\* (whatever on_error is, for create, update and get_or_create steps alike), the
\* failure does not end the transaction: when execute has ended with no failure
\* other than such ones, every step has run, in list order, and no compensation
\* delete was issued.
C23_FailurePassedOver ==
    (/\ TxEnded
     /\ \E i \in 1..Len(transaction[1].steps) : StepFailed(i)
     /\ \A i \in 1..Len(transaction[1].steps) : StepFailed(i) => PassedOver(i)) =>
        /\ pc = "transaction_done"
        /\ Len(mutation_results) = Len(transaction[1].steps)
        /\ \A i \in 1..Len(mutation_results) :
              /\ mutation_results[i].entity = transaction[1].steps[i].entity
              /\ mutation_results[i].operation = transaction[1].steps[i].operation
        /\ compensations = <<>>

\* C26: a compensation delete that fails does not end the rollback: when
\* execute has returned a failure under on_error = "rollback", the result says
\* rolled_back = true and exactly one compensation was attempted for every
\* recorded create, the latest first, whether or not the attempts succeeded.
C26_BestEffortCompensation ==
    (/\ pc = "transaction_done"
     /\ transaction[1].on_error = "rollback"
     /\ ~tx_result[1].success) =>
        /\ tx_result[1].rolled_back
        /\ Len(compensations) = Len(completed_creates)
        /\ \A k \in 1..Len(compensations) :
              LET created == completed_creates[Len(completed_creates) + 1 - k]
              IN  /\ compensations[k].entity = created.entity
                  /\ compensations[k].value = created.record_id

\* a rollback of two recorded creates whose first compensation failed and whose
\* second was still attempted
C26_Witness ==
    /\ pc = "transaction_done"
    /\ tx_result[1].rolled_back
    /\ Len(completed_creates) = 2
    /\ Len(compensations) = 2
    /\ ~compensations[1].ok
    /\ compensations[1].entity = "Property"
    /\ compensations[2].entity = "Person"

\* C29: execute returns success = true only when every step that is not
\* optional has a result with success = true; if a step that is not optional
\* failed, the result returned has success = false, whatever on_error is.
C29_SuccessMeansAllRequiredSucceeded ==
    TxEnded =>
        /\ (pc = "transaction_done" /\ tx_result[1].success) =>
              \A i \in 1..Len(transaction[1].steps) :
                  ~transaction[1].steps[i].optional =>
                      i <= Len(mutation_results) /\ mutation_results[i].success
        /\ NonOptionalFailures # {} =>
              pc = "transaction_done" /\ ~tx_result[1].success

\* C30: under on_error = "rollback", when a step that is not optional fails,
\* every record the transaction created before it, by a create step or by a
\* get_or_create step that went on to create, gets a compensation delete, and
\* nothing else is deleted.
C30_OwnRecordsCompensated ==
    (TxEnded /\ transaction[1].on_error = "rollback" /\ NonOptionalFailures # {}) =>
        CompensatedInOrder(Descending(CreatedBefore(FirstFailure,
                                                    {"create", "get_or_create"})))

============================================================================
